---- MODULE Spec2Model ----
(***************************************************************************)
(* A model of the `dangerous` input-parsing crate: immutable input views   *)
(* over a backing byte slice, the transactional reader, the structured     *)
(* errors (ExpectedValue, ExpectedLength, ExpectedValid), the catch-all    *)
(* errors (Expected, Fatal, Invalid) and their retry classification.       *)
(*                                                                         *)
(* A byte slice is a pointer range [lo, hi) into the backing bytes `data`; *)
(* an Input adds a Bound.  Option<T> is a sequence: None is << >> and      *)
(* Some(x) is <<x>>.  Result<T, E> is [ok |-> TRUE, val |-> v] or          *)
(* [ok |-> FALSE, err |-> e].                                              *)
(***************************************************************************)
EXTENDS Integers, Sequences, FiniteSets, TLC

VARIABLES
    data,     \* the backing bytes every view borrows from
    input,    \* the Input handed to read_all / read_partial
    etype,    \* the error type E the caller instantiated the reader with
    mode,     \* "none", "read_all" or "read_partial"
    pc,       \* where the machine is: "new", "reading", "done" (reader), "err" (error),
              \* "split", "called" (split), "iter" (CharIter)
    reader,   \* Reader.input: what is left to read
    prev,     \* Reader.input at entry of the last primitive
    last,     \* the last primitive: [op, arg, res]
    fret,     \* what the closure given to read_all / read_partial returned
    result,   \* what read_all / read_partial returned
    err,      \* error machine: the error value as it is now
    eop,      \* error machine: the last operation: [op, input, context, before]
    cls,      \* error machine: what the caller read off err: [done, fatal, retry]
    scopes,   \* the reader.context scopes that are open, outermost first
    iter,     \* the CharIter over the backing bytes: [forward, backward]
    yielded   \* the chars the CharIter gave out: [front, back], in call order

vars == <<data, input, etype, mode, pc, reader, prev, last, fret, result, err, eop,
          cls, scopes, iter, yielded>>

\* Longest backing slice.
MaxLen == 2

\* Longest context chain the error machine grows.
MaxChain == 3

\* Deepest nesting of recover scopes.
MaxDepth == 2

\* The byte values. The code compares bytes for equality only, so two
\* distinct values are enough to tell a match from a divergence.
Byte == {1, 2}

RECURSIVE SeqsUpTo(_)
SeqsUpTo(n) ==
    IF n = 0 THEN {<< >>}
    ELSE LET S == SeqsUpTo(n - 1)
         IN  S \cup {Append(s, b) : s \in {t \in S : Len(t) = n - 1}, b \in Byte}

\* Every backing slice, and every literal / pattern a caller may pass
\* (one byte longer than the backing slice, so that a literal can outrun it).
Datas == SeqsUpTo(MaxLen)
Literals == SeqsUpTo(MaxLen + 1) \ {<< >>}

None == << >>
Some(x) == <<x>>

Ok(v) == [ok |-> TRUE, val |-> v]
Err(e) == [ok |-> FALSE, err |-> e]

Min(a, b) == IF a < b THEN a ELSE b

(***************************************************************************)
(* Input: the provided methods of the Input trait and the Bytes views      *)
(***************************************************************************)

Bounds == {"None", "Start", "Both"}

\* Every byte slice of the backing bytes, as a pointer range.
Slices == {s \in [lo : 0..Len(data), hi : 0..Len(data)] : s.lo <= s.hi}

\* Every Input over the backing bytes.
Inputs == {[lo |-> s.lo, hi |-> s.hi, bound |-> b] : s \in Slices, b \in Bounds}

\* input(bytes): a fresh view of the whole backing slice, bound at its start.
NewInput == [lo |-> 0, hi |-> Len(data), bound |-> "Start"]

\* The bytes a slice points at.
BytesOf(s) == SubSeq(data, s.lo + 1, s.hi)

as_dangerous_bytes(self) == [lo |-> self.lo, hi |-> self.hi]

byte_len(self) == self.hi - self.lo

is_empty(self) == byte_len(self) = 0

is_bound(self) == self.bound = "Both"

\* into_bound that flips the bound of an input that is already bound.
into_bound_Toggle(self) ==
    [self EXCEPT !.bound = IF self.bound = "Both" THEN "Start" ELSE "Both"]

into_bound(self) == [self EXCEPT !.bound = "Both"]

\* The error keeps the view it was built from.
into_maybe_string(self) == self

\* util::slice::is_sub_slice: pointer-range inclusion.
is_sub_slice(parent, sub) == parent.lo <= sub.lo /\ sub.hi <= parent.hi

is_within(self, parent) ==
    is_sub_slice(as_dangerous_bytes(parent), as_dangerous_bytes(self))

\* span_of that gives the positions in the backing bytes, not the offsets
\* in the parent.
span_of_Absolute(self, parent) ==
    IF is_within(self, parent) THEN Some([start |-> self.lo, end |-> self.hi]) ELSE None

span_of(self, parent) ==
    IF is_within(self, parent)
    THEN LET parent_bounds == as_dangerous_bytes(parent)
             sub_bounds == as_dangerous_bytes(self)
             start_offset == sub_bounds.lo - parent_bounds.lo
             end_offset == sub_bounds.hi - parent_bounds.lo
         IN  Some([start |-> start_offset, end |-> end_offset])
    ELSE None

span_of_non_empty(self, parent) ==
    IF is_empty(self) THEN None ELSE span_of(self, parent)

\* Splits at byte index mid; both halves keep the bound of the view.
split_at_byte_unchecked(self, mid) ==
    << [lo |-> self.lo, hi |-> self.lo + mid, bound |-> self.bound],
       [lo |-> self.lo + mid, hi |-> self.hi, bound |-> self.bound] >>

\* Bytes::split_at_opt: Some when mid is in range.
split_at_opt(self, mid) ==
    IF mid <= byte_len(self) THEN Some(split_at_byte_unchecked(self, mid)) ELSE None

\* An empty view at the end of self, the bound preserved.
end(self) == [lo |-> self.hi, hi |-> self.hi, bound |-> self.bound]

\* Weakens the bound so that the end is not anchored.
into_unbound_end(self) ==
    [self EXCEPT !.bound = IF self.bound = "Both" THEN "Start" ELSE self.bound]

\* slice::starts_with, as Input::has_prefix and Prefix::is_prefix_of use it.
has_prefix(bytes, prefix) ==
    Len(prefix) <= Len(bytes) /\ SubSeq(bytes, 1, Len(prefix)) = prefix

(***************************************************************************)
(* Contexts (error/context.rs)                                             *)
(***************************************************************************)

\* OperationContext(op): an operation and no expectation.
OperationContext(op) == [operation |-> op, expected |-> None]

ExpectedContext(op, exp) == [operation |-> op, expected |-> Some(exp)]

\* Context for &'static str: the operation is "read", the string is what
\* was expected.
StrContext(s) == [operation |-> "read", expected |-> Some(s)]

\* The contexts the callers' scopes give, by depth of nesting.
StrContexts == <<"decode thing", "expect magic">>

\* The context chain, outermost node first; child() is the rest.
ContextChain_new(context) == <<context>>

\* ParentContext::consolidated of the node on top of a chain: the default
\* of the trait, which no context overrides.
consolidated(self) == 0

\* with_parent that hangs the new context below the chain.
ContextChain_with_parent_Inner(self, parent) == self \o <<parent>>

ContextChain_with_parent(self, parent) == <<parent>> \o self

(***************************************************************************)
(* Retry requirement                                                       *)
(***************************************************************************)

\* RetryRequirement::from_had_and_needed: the positive shortfall, if any.
from_had_and_needed(had, needed) ==
    IF had < needed THEN Some(needed - had) ELSE None

\* Length::AtLeast(n) and Length::Exactly(n), as the (min, max) an
\* ExpectedLength carries.
AtLeast(n) == [min |-> n, max |-> None]
Exactly(n) == [min |-> n, max |-> Some(n)]

(***************************************************************************)
(* Structured errors (error/expected.rs)                                   *)
(***************************************************************************)

ExpectedValue(value, span, inp, context) ==
    [type |-> "ExpectedValue", value |-> value, span |-> span,
     input |-> inp, context |-> context]

ExpectedLength(len, span, inp, context) ==
    [type |-> "ExpectedLength", min |-> len.min, max |-> len.max, span |-> span,
     input |-> inp, context |-> context]

ExpectedValid(span, inp, context, retry_requirement) ==
    [type |-> "ExpectedValid", span |-> span, input |-> inp, context |-> context,
     retry_requirement |-> retry_requirement]

Structured == {"ExpectedValue", "ExpectedLength", "ExpectedValid"}

\* is_fatal with receiver and argument exchanged: the bytes seen do not
\* start with the value.
ExpectedValue_is_fatal_Swapped(self) == ~has_prefix(BytesOf(self.span), self.value)

\* ExpectedValue::is_fatal: the value does not start with the bytes seen.
ExpectedValue_is_fatal(self) == ~has_prefix(self.value, BytesOf(self.span))

\* to_retry_requirement that wraps the difference itself, without the
\* constructor's check.
ExpectedValue_to_retry_requirement_Unchecked(self) ==
    IF ExpectedValue_is_fatal(self)
    THEN None
    ELSE Some(Len(self.value) - (self.span.hi - self.span.lo))

ExpectedValue_to_retry_requirement(self) ==
    IF ExpectedValue_is_fatal(self)
    THEN None
    ELSE LET needed == Len(self.value)
             had == self.span.hi - self.span.lo
         IN  from_had_and_needed(had, needed)

\* update_input that takes the new input whether or not it contains the old.
update_input_Always(self, inp) == [self EXCEPT !.input = inp]

\* update_input, the same for the three structured errors.
update_input(self, inp) ==
    IF is_within(self.input, inp) THEN [self EXCEPT !.input = inp] ELSE self

ExpectedValue_with_context(self, inp, context) == update_input(self, inp)

\* is_fatal with the test the wrong way round.
ExpectedLength_is_fatal_Inverted(self) == self.max = None

\* ExpectedLength::is_fatal: max() has a value.
ExpectedLength_is_fatal(self) == self.max # None

\* to_retry_requirement that is fatal only once the span exceeds max.
ExpectedLength_to_retry_requirement_Exceeded(self) ==
    IF self.max # None /\ self.span.hi - self.span.lo > self.max[1]
    THEN None
    ELSE from_had_and_needed(self.span.hi - self.span.lo, self.min)

ExpectedLength_to_retry_requirement(self) ==
    IF ExpectedLength_is_fatal(self)
    THEN None
    ELSE LET had == self.span.hi - self.span.lo
             needed == self.min
         IN  from_had_and_needed(had, needed)

ExpectedLength_with_context(self, inp, context) == update_input(self, inp)

ExpectedValid_to_retry_requirement(self) == self.retry_requirement

ExpectedValid_with_context(self, inp, context) == update_input(self, inp)

\* The (operation, expected) context of a structured error.
context_of(self) == self.context

(***************************************************************************)
(* Catch-all errors: Expected (error/expected.rs), Fatal (error/fatal.rs)  *)
(* and Invalid                                                             *)
(***************************************************************************)

\* From<ExpectedValue | ExpectedValid | ExpectedLength> for Expected.
Expected_from(e) ==
    [type |-> "Expected", inner |-> e, context |-> ContextChain_new(context_of(e))]

Expected_input(self) == self.inner.input

Expected_span(self) == self.inner.span

Expected_update_input(self, inp) ==
    [self EXCEPT !.inner = update_input(self.inner, inp)]

\* to_retry_requirement whose Valid arm forgets the stored requirement.
Expected_to_retry_requirement_Forget(self) ==
    CASE self.inner.type = "ExpectedValue" -> ExpectedValue_to_retry_requirement(self.inner)
      [] self.inner.type = "ExpectedValid" -> None
      [] self.inner.type = "ExpectedLength" -> ExpectedLength_to_retry_requirement(self.inner)

Expected_to_retry_requirement(self) ==
    CASE self.inner.type = "ExpectedValue" -> ExpectedValue_to_retry_requirement(self.inner)
      [] self.inner.type = "ExpectedValid" -> ExpectedValid_to_retry_requirement(self.inner)
      [] self.inner.type = "ExpectedLength" -> ExpectedLength_to_retry_requirement(self.inner)

Expected_with_context(self, inp, context) ==
    Expected_update_input(
        [self EXCEPT !.context = ContextChain_with_parent(self.context, context)], inp)

Fatal == [type |-> "Fatal"]

Fatal_from(e) == Fatal

Fatal_from_context(self, inp, context) == self

Fatal_to_retry_requirement(self) == None

Fatal_is_fatal(self) == TRUE

\* Invalid keeps only the retry requirement of the error it is made from.
Invalid_from(e) ==
    [type |-> "Invalid",
     retry_requirement |->
        CASE e.type = "ExpectedValue" -> ExpectedValue_to_retry_requirement(e)
          [] e.type = "ExpectedValid" -> ExpectedValid_to_retry_requirement(e)
          [] e.type = "ExpectedLength" -> ExpectedLength_to_retry_requirement(e)]

Invalid_with_context(self, inp, context) == self

ErrorTypes == Structured \cup {"Expected", "Fatal", "Invalid"}

\* E::from(e) for the error type E of the reader.
From(E, e) ==
    CASE E = "Expected" -> Expected_from(e)
      [] E = "Fatal" -> Fatal_from(e)
      [] E = "Invalid" -> Invalid_from(e)
      [] OTHER -> e

\* ToRetryRequirement::to_retry_requirement, by the type of the error.
to_retry_requirement(e) ==
    CASE e.type = "ExpectedValue" -> ExpectedValue_to_retry_requirement(e)
      [] e.type = "ExpectedLength" -> ExpectedLength_to_retry_requirement(e)
      [] e.type = "ExpectedValid" -> ExpectedValid_to_retry_requirement(e)
      [] e.type = "Expected" -> Expected_to_retry_requirement(e)
      [] e.type = "Fatal" -> Fatal_to_retry_requirement(e)
      [] e.type = "Invalid" -> e.retry_requirement

\* err.is_fatal(): the inherent method where the type has one, else the
\* trait's (Fatal overrides it; the default is "no retry requirement").
is_fatal(e) ==
    CASE e.type = "ExpectedValue" -> ExpectedValue_is_fatal(e)
      [] e.type = "ExpectedLength" -> ExpectedLength_is_fatal(e)
      [] e.type = "Fatal" -> Fatal_is_fatal(e)
      [] OTHER -> to_retry_requirement(e) = None

\* WithContext, by the type of the error.
with_context(e, inp, context) ==
    CASE e.type = "ExpectedValue" -> ExpectedValue_with_context(e, inp, context)
      [] e.type = "ExpectedLength" -> ExpectedLength_with_context(e, inp, context)
      [] e.type = "ExpectedValid" -> ExpectedValid_with_context(e, inp, context)
      [] e.type = "Expected" -> Expected_with_context(e, inp, context)
      [] e.type = "Fatal" -> Fatal_from_context(e, inp, context)
      [] e.type = "Invalid" -> Invalid_with_context(e, inp, context)

(***************************************************************************)
(* Splitting helpers (input/traits.rs, PrivateExt).  E is the error type   *)
(* of the caller; a split returns Ok(<<head, tail>>) or Err(E::from(..)).  *)
(***************************************************************************)

split_at(self, mid, operation, E) ==
    LET s == split_at_opt(self, mid)
    IN  IF s # None
        THEN Ok(s[1])
        ELSE Err(From(E, ExpectedLength(AtLeast(mid), as_dangerous_bytes(self),
                                        into_maybe_string(self),
                                        ExpectedContext(operation, "enough input"))))

split_first_opt(self) ==
    IF is_empty(self)
    THEN None
    ELSE Some(<<BytesOf(self)[1], split_at_byte_unchecked(self, 1)[2]>>)

split_first(self, operation, E) ==
    LET s == split_first_opt(self)
    IN  IF s # None
        THEN Ok(s[1])
        ELSE Err(From(E, ExpectedLength(AtLeast(1), as_dangerous_bytes(self),
                                        into_maybe_string(self),
                                        ExpectedContext(operation, "enough input"))))

\* Prefix::is_prefix_of for a byte-slice prefix.
is_prefix_of(prefix, self) == has_prefix(BytesOf(self), prefix)

\* split_prefix_opt that hands back the whole input as the tail.
split_prefix_opt_Keep(self, prefix) ==
    IF is_prefix_of(prefix, self)
    THEN <<Some(split_at_byte_unchecked(self, Len(prefix))[1]), self>>
    ELSE <<None, self>>

split_prefix_opt(self, prefix) ==
    IF is_prefix_of(prefix, self)
    THEN LET s == split_at_byte_unchecked(self, Len(prefix))
         IN  <<Some(s[1]), s[2]>>
    ELSE <<None, self>>

\* split_prefix whose error spans the length of the prefix, whatever the
\* input holds.
split_prefix_Overrun(self, prefix, operation, E) ==
    LET s == split_prefix_opt(self, prefix)
    IN  IF s[1] # None
        THEN Ok(<<s[1][1], s[2]>>)
        ELSE Err(From(E, ExpectedValue(prefix, [lo |-> self.lo, hi |-> self.lo + Len(prefix)],
                                       into_maybe_string(self),
                                       ExpectedContext(operation, "exact value"))))

split_prefix(self, prefix, operation, E) ==
    LET s == split_prefix_opt(self, prefix)
    IN  IF s[1] # None
        THEN Ok(<<s[1][1], s[2]>>)
        ELSE LET bytes == as_dangerous_bytes(s[2])
                 prefix_len == Len(prefix)
                 actual == IF bytes.hi - bytes.lo > prefix_len
                           THEN [lo |-> bytes.lo, hi |-> bytes.lo + prefix_len]
                           ELSE bytes
             IN  Err(From(E, ExpectedValue(prefix, actual, into_maybe_string(self),
                                           ExpectedContext(operation, "exact value"))))

\* Pattern::find_match for a byte-slice pattern: the first occurrence, as
\* Some(<<index, len>>).
find_match(pattern, self) ==
    LET b == BytesOf(self)
        at == {i \in 0..(Len(b) - Len(pattern)) :
                  SubSeq(b, i + 1, i + Len(pattern)) = pattern}
    IN  IF at = {}
        THEN None
        ELSE Some(<<CHOOSE i \in at : \A j \in at : i <= j, Len(pattern)>>)

split_until_opt(self, pattern) ==
    LET m == find_match(pattern, self)
    IN  IF m # None THEN Some(split_at_byte_unchecked(self, m[1][1])) ELSE None

split_until(self, pattern, operation, E) ==
    LET s == split_until_opt(self, pattern)
    IN  IF s # None
        THEN Ok(s[1])
        ELSE Err(From(E, ExpectedValue(pattern, as_dangerous_bytes(self),
                                       into_maybe_string(self),
                                       ExpectedContext(operation, "pattern match"))))

\* split_until_consume_opt that leaves the match at the front of the tail.
split_until_consume_opt_Keep(self, pattern) ==
    LET m == find_match(pattern, self)
    IN  IF m # None THEN Some(split_at_byte_unchecked(self, m[1][1])) ELSE None

split_until_consume_opt(self, pattern) ==
    LET m == find_match(pattern, self)
    IN  IF m # None
        THEN LET index == m[1][1]
                 len == m[1][2]
                 s == split_at_byte_unchecked(self, index)
                 t == split_at_byte_unchecked(s[2], len)
             IN  Some(<<s[1], t[2]>>)
        ELSE None

split_until_consume(self, pattern, operation, E) ==
    LET s == split_until_consume_opt(self, pattern)
    IN  IF s # None
        THEN Ok(s[1])
        ELSE Err(From(E, ExpectedValue(pattern, as_dangerous_bytes(self),
                                       into_maybe_string(self),
                                       ExpectedContext(operation, "pattern match"))))

\* Pattern::find_reject for a byte pattern: the index of the first byte
\* that is not the pattern, as Some(index).
find_reject(pattern, self) ==
    LET b == BytesOf(self)
        at == {i \in 0..(Len(b) - 1) : b[i + 1] # pattern}
    IN  IF at = {} THEN None ELSE Some(CHOOSE i \in at : \A j \in at : i <= j)

split_while_opt(self, pattern) ==
    LET i == find_reject(pattern, self)
    IN  IF i # None THEN Some(split_at_byte_unchecked(self, i[1])) ELSE None

\* try_split_while that lets an error of f end the matching prefix, as a
\* false would.
try_split_while_Swallow(self, f, operation) ==
    LET stop == {i \in 0..(byte_len(self) - 1) : f[i] # Ok(TRUE)}
    IN  IF stop = {}
        THEN [ret |-> Ok(<<self, end(self)>>), evaluated |-> byte_len(self)]
        ELSE LET i == CHOOSE k \in stop : \A j \in stop : k <= j
             IN  [ret |-> Ok(split_at_byte_unchecked(self, i)), evaluated |-> i + 1]

\* try_split_while: f[i] is what the closure returns for the token at byte
\* index i.  The loop leaves at the first token for which f does not say
\* Ok(true), with `?` when it failed; `evaluated` counts the calls of f.
try_split_while(self, f, operation) ==
    LET stop == {i \in 0..(byte_len(self) - 1) : f[i] # Ok(TRUE)}
    IN  IF stop = {}
        THEN [ret |-> Ok(<<self, end(self)>>), evaluated |-> byte_len(self)]
        ELSE LET i == CHOOSE k \in stop : \A j \in stop : k <= j
             IN  IF f[i].ok
                 THEN [ret |-> Ok(split_at_byte_unchecked(self, i)), evaluated |-> i + 1]
                 ELSE [ret |-> Err(with_context(f[i].err, self, OperationContext(operation))),
                       evaluated |-> i + 1]

(***************************************************************************)
(* Reader: a cursor over one Input.  A primitive returns                   *)
(* [input |-> the reader's input afterwards, ret |-> its Result].          *)
(***************************************************************************)

Reader_new(inp) == inp

at_end(r) == is_empty(r)

\* take_remaining: everything left; the reader is left at the end.
take_remaining(r) == [input |-> end(r), ret |-> r]

\* try_advance: commit the closure's new input only if it returned Ok.
try_advance(r, res) ==
    IF res.ok
    THEN [input |-> res.val[2], ret |-> Ok(res.val[1])]
    ELSE [input |-> r, ret |-> res]

take(r, len, E) == try_advance(r, split_at(r, len, "take", E))

\* peek: a view of the first len bytes; the reader does not move.
peek(r, len, E) ==
    LET s == split_at(r, len, "peek", E)
    IN  [input |-> r, ret |-> IF s.ok THEN Ok(s.val[1]) ELSE s]

consume(r, prefix, E) == try_advance(r, split_prefix(r, prefix, "consume", E))

take_until(r, pattern, E) == try_advance(r, split_until(r, pattern, "take until", E))

\* take_while: the bytes that match, all of the input when none is
\* rejected; it cannot fail.
take_while(r, pattern) ==
    LET s == split_while_opt(r, pattern)
    IN  IF s # None
        THEN [input |-> s[1][2], ret |-> Ok(s[1][1])]
        ELSE [input |-> end(r), ret |-> Ok(r)]

read_u8(r, E) == try_advance(r, split_first(r, "read u8", E))

\* recover that keeps the reader where the closure left it.
recover_NoRewind(r, entry, fres) ==
    IF fres.ok
    THEN [input |-> r, ret |-> Ok(Some(fres.val))]
    ELSE [input |-> r, ret |-> Ok(None)]

\* Reader::recover: the closure started at entry, left the reader at r and
\* returned fres; on failure the reader is back at entry.
recover(r, entry, fres) ==
    IF fres.ok
    THEN [input |-> r, ret |-> Ok(Some(fres.val))]
    ELSE [input |-> entry, ret |-> Ok(None)]

\* Reader::recover_if: as recover when the classifier says so (pred), else
\* the error is returned.
recover_if(r, entry, fres, pred) ==
    IF fres.ok
    THEN [input |-> r, ret |-> Ok(Some(fres.val))]
    ELSE IF pred
         THEN [input |-> entry, ret |-> Ok(None)]
         ELSE [input |-> r, ret |-> fres]

\* Reader::context: a failure of the scope gets the input at entry and the
\* context of the scope.
Reader_context(entry, context, fres) ==
    IF fres.ok THEN fres ELSE Err(with_context(fres.err, entry, context))

(***************************************************************************)
(* Typed reads (macros.rs, impl_read_num), for the two-byte integers       *)
(***************************************************************************)

NumLen == 2

from_le_bytes(arr) == arr[1] + 256 * arr[2]

\* from_be_bytes that reads the array in little-endian order.
from_be_bytes_Little(arr) == arr[1] + 256 * arr[2]

from_be_bytes(arr) == 256 * arr[1] + arr[2]

\* i16::from_le_bytes / i16::from_be_bytes: the two's complement value.
i16(u) == IF u >= 32768 THEN u - 65536 ELSE u

i16_from_le_bytes(arr) == i16(arr[1] + 256 * arr[2])

i16_from_be_bytes(arr) == i16(256 * arr[1] + arr[2])

\* Bytes::split_array: the first N bytes as an array, and the rest.
split_array(self, N, operation, E) ==
    LET s == split_at(self, N, operation, E)
    IN  IF s.ok THEN Ok(<<BytesOf(s.val[1]), s.val[2]>>) ELSE s

read_le(r, E) ==
    LET s == split_array(r, NumLen, "read little-endian u16", E)
    IN  try_advance(r, IF s.ok THEN Ok(<<from_le_bytes(s.val[1]), s.val[2]>>) ELSE s)

\* A read that moves before it checks: on a shortfall the reader has
\* already drained what was left.
read_be_Drain(r, E) ==
    LET s == split_array(r, NumLen, "read big-endian u16", E)
    IN  IF s.ok
        THEN [input |-> s.val[2], ret |-> Ok(from_be_bytes(s.val[1]))]
        ELSE [input |-> end(r), ret |-> s]

read_be(r, E) ==
    LET s == split_array(r, NumLen, "read big-endian u16", E)
    IN  try_advance(r, IF s.ok THEN Ok(<<from_be_bytes(s.val[1]), s.val[2]>>) ELSE s)

read_i16_le(r, E) ==
    LET s == split_array(r, NumLen, "read little-endian i16", E)
    IN  try_advance(r, IF s.ok THEN Ok(<<i16_from_le_bytes(s.val[1]), s.val[2]>>) ELSE s)

read_i16_be(r, E) ==
    LET s == split_array(r, NumLen, "read big-endian i16", E)
    IN  try_advance(r, IF s.ok THEN Ok(<<i16_from_be_bytes(s.val[1]), s.val[2]>>) ELSE s)

(***************************************************************************)
(* read_all and read_partial (input/traits.rs), given what the closure     *)
(* returned (fres) and where it left the reader (r)                        *)
(***************************************************************************)

\* read_all without the check for trailing input.
read_all_NoTrailingCheck(self, fres, r, E) ==
    Reader_context(Reader_new(self), OperationContext("read all"), fres)

read_all(self, fres, r, E) ==
    LET c == Reader_context(Reader_new(self), OperationContext("read all"), fres)
    IN  IF c.ok
        THEN IF at_end(r)
             THEN Ok(c.val)
             ELSE Err(From(E, ExpectedLength(Exactly(0),
                                             as_dangerous_bytes(take_remaining(r).ret),
                                             into_maybe_string(self),
                                             ExpectedContext("read all", "no trailing input"))))
        ELSE Err(c.err)

read_partial(self, fres, r) ==
    LET c == Reader_context(Reader_new(self), OperationContext("read partial"), fres)
    IN  IF c.ok THEN Ok(<<c.val, take_remaining(r).ret>>) ELSE Err(c.err)

\* split_consumed that hands back the whole input as what was consumed.
split_consumed_Whole(self, r) ==
    LET tail == take_remaining(r).ret
    IN  IF tail.bound = "None" THEN <<into_unbound_end(self), tail>> ELSE <<self, tail>>

\* split_consumed, given where the closure left the reader (r).
split_consumed(self, r) ==
    LET tail == take_remaining(r).ret
        mid == byte_len(self) - byte_len(tail)
        head == split_at_byte_unchecked(self, mid)[1]
    IN  IF tail.bound = "None" THEN <<into_unbound_end(head), tail>> ELSE <<head, tail>>

try_split_consumed(self, fres, r, operation) ==
    LET c == Reader_context(Reader_new(self), OperationContext(operation), fres)
    IN  IF ~c.ok
        THEN c
        ELSE LET tail == take_remaining(r).ret
                 mid == byte_len(self) - byte_len(tail)
                 head == split_at_byte_unchecked(self, mid)[1]
             IN  IF tail.bound = "None"
                 THEN Ok(<<into_unbound_end(head), tail>>)
                 ELSE Ok(<<head, tail>>)

\* split_expect, given what the closure returned (fopt, an Option) and
\* where it left the reader (r).
split_expect(self, fopt, r, expected, operation, E) ==
    LET context == ExpectedContext(operation, expected)
    IN  IF fopt # None
        THEN Ok(<<fopt[1], take_remaining(r).ret>>)
        ELSE LET tail == take_remaining(r).ret
                 span == [lo |-> self.lo,
                          hi |-> self.lo + (byte_len(self) - byte_len(tail))]
             IN  Err(From(E, ExpectedValid(span, into_maybe_string(self), context, None)))

\* try_split_expect, given what the closure returned (fres, a Result of an
\* Option) and where it left the reader (r).
try_split_expect(self, fres, r, expected, operation, E) ==
    LET context == ExpectedContext(operation, expected)
        c == Reader_context(Reader_new(self), context, fres)
    IN  IF ~c.ok
        THEN Err(c.err)
        ELSE IF c.val # None
             THEN Ok(<<c.val[1], take_remaining(r).ret>>)
             ELSE LET tail == take_remaining(r).ret
                      span == [lo |-> self.lo,
                               hi |-> self.lo + (byte_len(self) - byte_len(tail))]
                  IN  Err(From(E, ExpectedValid(span, into_maybe_string(self), context,
                                                None)))

\* try_split_expect_erased that drops the retry requirement of the error it
\* erases.
try_split_expect_erased_Forget(self, fres, r, expected, operation, E) ==
    IF fres.ok
    THEN Ok(<<fres.val, take_remaining(r).ret>>)
    ELSE LET tail == take_remaining(r).ret
             span == [lo |-> self.lo,
                      hi |-> self.lo + (byte_len(self) - byte_len(tail))]
         IN  Err(From(E, ExpectedValid(span, into_maybe_string(self),
                                       ExpectedContext(operation, expected), None)))

\* try_split_expect_erased, given what the closure returned (fres, a Result
\* with an error of any type R: ToRetryRequirement) and where it left the
\* reader (r).
try_split_expect_erased(self, fres, r, expected, operation, E) ==
    IF fres.ok
    THEN Ok(<<fres.val, take_remaining(r).ret>>)
    ELSE LET tail == take_remaining(r).ret
             span == [lo |-> self.lo,
                      hi |-> self.lo + (byte_len(self) - byte_len(tail))]
         IN  Err(From(E, ExpectedValid(span, into_maybe_string(self),
                                       ExpectedContext(operation, expected),
                                       to_retry_requirement(fres.err))))

\* Reader::expect: the closure read up to r and returned fopt.
expect(self, fopt, r, E) ==
    try_advance(self, split_expect(self, fopt, r, "value", "expect", E))

\* Reader::try_expect: the closure read up to r and returned fres.
try_expect(self, fres, r, E) ==
    try_advance(self, try_split_expect(self, fres, r, "value", "try expect", E))

(***************************************************************************)
(* The reader machine: an input is made, optionally bound, and handed to   *)
(* read_all or read_partial; the closure runs reader primitives one at a   *)
(* time and returns Ok(v) or the error of the primitive that just failed.  *)
(***************************************************************************)

\* Values a closure may return.
Vals == {"v", "w"}

NoOp == [op |-> "none", arg |-> << >>, res |-> Ok("()")]

NoRes == Ok("()")

NoErr == Fatal

NoEop == [op |-> "none", input |-> [lo |-> 0, hi |-> 0, bound |-> "Start"],
          context |-> [operation |-> "none", expected |-> << >>], before |-> Fatal]

NoCls == [done |-> FALSE, fatal |-> FALSE, retry |-> None]

NoIter == [forward |-> 0, backward |-> 0]

NoYield == [front |-> << >>, back |-> << >>]

\* The error types that implement From<ExpectedLength> / From<ExpectedValue>.
FromLength == {"ExpectedLength", "Expected", "Fatal", "Invalid"}
FromValue == {"ExpectedValue", "Expected", "Fatal", "Invalid"}
FromValid == {"ExpectedValid", "Expected", "Fatal", "Invalid"}

Init ==
    /\ data \in Datas
    /\ input = NewInput
    /\ etype = "none"
    /\ mode = "none"
    /\ pc = "new"
    /\ reader = NewInput
    /\ prev = NewInput
    /\ last = NoOp
    /\ fret = NoRes
    /\ result = NoRes
    /\ err = NoErr
    /\ eop = NoEop
    /\ cls = NoCls
    /\ scopes = << >>
    /\ iter = NoIter
    /\ yielded = NoYield

IntoBound ==
    /\ pc = "new"
    /\ input' = into_bound(input)
    /\ reader' = into_bound(input)
    /\ prev' = into_bound(input)
    /\ UNCHANGED <<iter, yielded, data, etype, mode, pc, last, fret, result, err, eop, cls, scopes>>

\* x.read_all(f): Reader::new(x), then f runs.
ReadAllBegin ==
    /\ pc = "new"
    /\ \E E \in FromLength : etype' = E
    /\ mode' = "read_all"
    /\ pc' = "reading"
    /\ reader' = Reader_new(input)
    /\ prev' = Reader_new(input)
    /\ UNCHANGED <<iter, yielded, data, input, last, fret, result, err, eop, cls, scopes>>

ReadPartialBegin ==
    /\ pc = "new"
    /\ \E E \in FromLength \cup FromValue : etype' = E
    /\ mode' = "read_partial"
    /\ pc' = "reading"
    /\ reader' = Reader_new(input)
    /\ prev' = Reader_new(input)
    /\ UNCHANGED <<iter, yielded, data, input, last, fret, result, err, eop, cls, scopes>>

\* One reader primitive, with what it returned.
Primitive(op, arg, out) ==
    /\ prev' = reader
    /\ reader' = out.input
    /\ last' = [op |-> op, arg |-> arg, res |-> out.ret]
    /\ UNCHANGED <<iter, yielded, data, input, etype, mode, pc, fret, result, err, eop, cls, scopes>>

Take ==
    /\ pc = "reading" /\ etype \in FromLength
    /\ \E n \in 0..(MaxLen + 1) : Primitive("take", <<n>>, take(reader, n, etype))

Peek ==
    /\ pc = "reading" /\ etype \in FromLength
    /\ \E n \in 0..(MaxLen + 1) : Primitive("peek", <<n>>, peek(reader, n, etype))

Consume ==
    /\ pc = "reading" /\ etype \in FromValue
    /\ \E lit \in Literals \cup {<< >>} : Primitive("consume", lit, consume(reader, lit, etype))

TakeUntil ==
    /\ pc = "reading" /\ etype \in FromValue
    /\ \E pat \in Literals : Primitive("take_until", pat, take_until(reader, pat, etype))

TakeWhile ==
    /\ pc = "reading"
    /\ \E b \in Byte : Primitive("take_while", <<b>>, take_while(reader, b))

ReadLe ==
    /\ pc = "reading" /\ etype \in FromLength
    /\ Primitive("read_le", << >>, read_le(reader, etype))

ReadBe ==
    /\ pc = "reading" /\ etype \in FromLength
    /\ Primitive("read_be", << >>, read_be(reader, etype))

ReadU8 ==
    /\ pc = "reading" /\ etype \in FromLength
    /\ Primitive("read_u8", << >>, read_u8(reader, etype))

\* reader.expect(.., f): f reads k bytes off its own reader and returns
\* Some(v) or None.
Expect ==
    /\ pc = "reading" /\ etype \in FromValid
    /\ \E k \in 0..byte_len(reader), fopt \in {None, Some("v")} :
          Primitive("expect", <<k, fopt>>,
                    expect(reader, fopt, split_at_byte_unchecked(reader, k)[2], etype))

\* reader.try_expect(.., f): f reads k bytes off its own reader and returns
\* Ok(Some(v)), Ok(None) or the error of a take beyond what is left.
TryExpect ==
    /\ pc = "reading" /\ etype \in FromValid \cap FromLength
    /\ \E k \in 0..byte_len(reader) :
          LET r == split_at_byte_unchecked(reader, k)[2]
          IN  \E fres \in {Ok(None), Ok(Some("v")), take(r, byte_len(r) + 1, etype).ret} :
                 Primitive("try_expect", <<k, fres>>, try_expect(reader, fres, r, etype))

\* reader.context(c, f) with a &'static str context: the scope opens at the
\* reader's input, and f starts.
ContextEnter ==
    /\ pc = "reading"
    /\ Len(scopes) < Len(StrContexts)
    /\ scopes' = Append(scopes, [context |-> StrContext(StrContexts[Len(scopes) + 1]),
                                 entry |-> reader])
    /\ last' = NoOp
    /\ prev' = reader
    /\ UNCHANGED <<iter, yielded, data, input, etype, mode, pc, reader, fret, result, err, eop, cls>>

\* The closure of the innermost scope is over, with fres. The arg of the
\* record is the nest of scopes that were open when the error was made.
ContextExit(fres, nest) ==
    LET top == scopes[Len(scopes)]
    IN  /\ scopes' = SubSeq(scopes, 1, Len(scopes) - 1)
        /\ last' = [op |-> "context", arg |-> nest,
                    res |-> Reader_context(top.entry, top.context, fres)]
        /\ prev' = reader
        /\ UNCHANGED <<iter, yielded, data, input, etype, mode, pc, reader, fret, result, err, eop, cls>>

ContextExitOk ==
    /\ pc = "reading"
    /\ scopes # << >>
    /\ ContextExit(Ok("()"), << >>)

\* The closure of the scope propagates the failure of its last operation.
ContextExitErr ==
    /\ pc = "reading"
    /\ scopes # << >>
    /\ ~last.res.ok
    /\ ContextExit(last.res, IF last.op = "context" THEN last.arg ELSE scopes)

\* The closure is over, with fres; read_all / read_partial finishes.
Return(fres) ==
    /\ scopes = << >>
    /\ fret' = fres
    /\ result' = IF mode = "read_all"
                 THEN read_all(input, fres, reader, etype)
                 ELSE read_partial(input, fres, reader)
    /\ pc' = "done"
    /\ last' = NoOp
    /\ prev' = reader
    /\ UNCHANGED <<iter, yielded, data, input, etype, mode, reader, err, eop, cls, scopes>>

ReturnOk ==
    /\ pc = "reading"
    /\ \E v \in Vals : Return(Ok(v))

\* The closure propagates the failure of its last primitive.
ReturnErr ==
    /\ pc = "reading"
    /\ ~last.res.ok
    /\ Return(last.res)

Next ==
    \/ IntoBound
    \/ ReadAllBegin
    \/ ReadPartialBegin
    \/ Take
    \/ Peek
    \/ Consume
    \/ TakeUntil
    \/ TakeWhile
    \/ ReadLe
    \/ ReadBe
    \/ ReturnOk
    \/ ReturnErr

Spec == Init /\ [][Next]_vars

\* The reader machine whose closure nests scopes around take and consume.
ScopeNext ==
    \/ IntoBound
    \/ ReadAllBegin
    \/ Take
    \/ Consume
    \/ ReadU8
    \/ Expect
    \/ TryExpect
    \/ ContextEnter
    \/ ContextExitOk
    \/ ContextExitErr
    \/ ReturnOk
    \/ ReturnErr

ScopeSpec == Init /\ [][ScopeNext]_vars


(***************************************************************************)
(* The recover machine: under read_all, the closure nests recover and      *)
(* recover_if around take.                                                 *)
(***************************************************************************)

\* reader.recover(f) / reader.recover_if(f, classify): the scope opens at
\* the reader's input, and f starts.
RecoverEnter ==
    /\ pc = "reading"
    /\ Len(scopes) < MaxDepth
    /\ \E op \in {"recover", "recover_if"} :
          scopes' = Append(scopes, [op |-> op, entry |-> reader])
    /\ last' = NoOp
    /\ prev' = reader
    /\ UNCHANGED <<iter, yielded, data, input, etype, mode, pc, reader, fret, result, err, eop, cls>>

\* The closure of the innermost scope is over, with fres; pred is what the
\* classifier of recover_if says of its error. prev keeps where the
\* closure left the reader.
RecoverExit(fres, pred) ==
    LET top == scopes[Len(scopes)]
        out == IF top.op = "recover"
               THEN recover(reader, top.entry, fres)
               ELSE recover_if(reader, top.entry, fres, pred)
    IN  /\ scopes' = SubSeq(scopes, 1, Len(scopes) - 1)
        /\ prev' = reader
        /\ reader' = out.input
        /\ last' = [op |-> top.op, arg |-> <<top.entry, fres.ok, pred>>, res |-> out.ret]
        /\ UNCHANGED <<iter, yielded, data, input, etype, mode, pc, fret, result, err, eop, cls>>

RecoverExitOk ==
    /\ pc = "reading"
    /\ scopes # << >>
    /\ RecoverExit(Ok("v"), TRUE)

RecoverExitErr ==
    /\ pc = "reading"
    /\ scopes # << >>
    /\ ~last.res.ok
    /\ \E pred \in BOOLEAN :
          /\ scopes[Len(scopes)].op = "recover" => pred
          /\ RecoverExit(last.res, pred)

RecoverNext ==
    \/ ReadAllBegin
    \/ Take
    \/ RecoverEnter
    \/ RecoverExitOk
    \/ RecoverExitErr

RecoverSpec == Init /\ [][RecoverNext]_vars

(***************************************************************************)
(* The retry machine: a parse of one primitive fails on a fresh input, the *)
(* caller reads the retry requirement off the error, gets more bytes and   *)
(* runs the same parse on the longer input.                                *)
(***************************************************************************)

\* The primitive op with argument arg, run on the reader r.
Rerun(op, arg, r, E) ==
    CASE op = "take" -> take(r, arg[1], E)
      [] op = "peek" -> peek(r, arg[1], E)
      [] op = "consume" -> consume(r, arg, E)
      [] op = "take_until" -> take_until(r, arg, E)

\* The bytes that may arrive: as many as the requirement asks for, any
\* number when there is none.
Extensions(retry) ==
    IF retry # None THEN {x \in Literals : Len(x) = retry[1]} ELSE Literals

\* More bytes arrive. fret keeps the error of the first run and cls what
\* the caller read off it.
Extend ==
    /\ pc = "reading"
    /\ last.op \in {"take", "peek", "consume", "take_until"}
    /\ ~last.res.ok
    /\ last.res.err.type \in Structured \cup {"Expected"}
    /\ reader = Reader_new(input)
    /\ \E x \in Extensions(to_retry_requirement(last.res.err)) :
          LET longer == [input EXCEPT !.hi = Len(data) + Len(x)]
          IN  /\ data' = data \o x
              /\ input' = longer
              /\ prev' = Reader_new(longer)
              /\ reader' = Reader_new(longer)
    /\ fret' = last.res
    /\ cls' = [done |-> TRUE, fatal |-> is_fatal(last.res.err),
               retry |-> to_retry_requirement(last.res.err)]
    /\ pc' = "extended"
    /\ UNCHANGED <<iter, yielded, etype, mode, last, result, err, eop, scopes>>

\* The same parse runs on the longer input; last has its outcome.
Retry ==
    /\ pc = "extended"
    /\ reader' = Rerun(last.op, last.arg, reader, etype).input
    /\ last' = [last EXCEPT !.res = Rerun(last.op, last.arg, reader, etype).ret]
    /\ pc' = "retried"
    /\ UNCHANGED <<iter, yielded, data, input, etype, mode, prev, fret, result, err, eop, cls, scopes>>

RetryNext ==
    \/ ReadPartialBegin
    \/ Take
    \/ Peek
    \/ Consume
    \/ TakeUntil
    \/ Extend
    \/ Retry

RetrySpec == Init /\ [][RetryNext]_vars

(***************************************************************************)
(* The bound machine: any view of the backing bytes, with any bound, is    *)
(* bound, and bound again.                                                 *)
(***************************************************************************)

BoundInit ==
    /\ data \in Datas
    /\ input \in Inputs
    /\ etype = "none"
    /\ mode = "none"
    /\ pc = "new"
    /\ reader = input
    /\ prev = input
    /\ last = NoOp
    /\ fret = NoRes
    /\ result = NoRes
    /\ err = NoErr
    /\ eop = NoEop
    /\ cls = NoCls
    /\ scopes = << >>
    /\ iter = NoIter
    /\ yielded = NoYield

\* x = x.into_bound(); prev keeps the x it was called on.
IntoBoundAgain ==
    /\ pc = "new"
    /\ prev' = input
    /\ input' = into_bound(input)
    /\ reader' = into_bound(input)
    /\ last' = [op |-> "into_bound", arg |-> << >>, res |-> Ok("()")]
    /\ UNCHANGED <<iter, yielded, data, etype, mode, pc, fret, result, err, eop, cls, scopes>>

BoundNext == IntoBoundAgain

BoundSpec == BoundInit /\ [][BoundNext]_vars

(***************************************************************************)
(* The span machine: the span of any view (reader) is asked of any view    *)
(* (input) of the same backing bytes.                                      *)
(***************************************************************************)

SpanInit ==
    /\ data \in Datas
    /\ input \in Inputs
    /\ reader \in Inputs
    /\ etype = "none"
    /\ mode = "none"
    /\ pc = "new"
    /\ prev = reader
    /\ last = NoOp
    /\ fret = NoRes
    /\ result = NoRes
    /\ err = NoErr
    /\ eop = NoEop
    /\ cls = NoCls
    /\ scopes = << >>
    /\ iter = NoIter
    /\ yielded = NoYield

SpanOf ==
    /\ pc = "new"
    /\ last' = [op |-> "span_of", arg |-> << >>, res |-> Ok(span_of(reader, input))]
    /\ UNCHANGED <<iter, yielded, data, input, etype, mode, pc, reader, prev, fret, result, err, eop, cls,
                   scopes>>

SpanOfNonEmpty ==
    /\ pc = "new"
    /\ last' = [op |-> "span_of_non_empty", arg |-> << >>,
                res |-> Ok(span_of_non_empty(reader, input))]
    /\ UNCHANGED <<iter, yielded, data, input, etype, mode, pc, reader, prev, fret, result, err, eop, cls,
                   scopes>>

SpanNext ==
    \/ SpanOf
    \/ SpanOfNonEmpty

SpanSpec == SpanInit /\ [][SpanNext]_vars

(***************************************************************************)
(* The number machine: typed reads over backing bytes that hold the least  *)
(* and the greatest byte values, the sign bit set and clear.               *)
(***************************************************************************)

NumBytes == {0, 1, 128, 255}

RECURSIVE NumSeqs(_)
NumSeqs(n) ==
    IF n = 0 THEN {<< >>}
    ELSE LET S == NumSeqs(n - 1)
         IN  S \cup {Append(t, b) : t \in {u \in S : Len(u) = n - 1}, b \in NumBytes}

\* One byte more than a number takes, so that a read leaves a remainder
\* too short for the next.
NumDatas == NumSeqs(NumLen + 1)

NumInit ==
    /\ data \in NumDatas
    /\ input = NewInput
    /\ etype \in {"ExpectedLength", "Expected"}
    /\ mode = "read_partial"
    /\ pc = "reading"
    /\ reader = Reader_new(input)
    /\ prev = reader
    /\ last = NoOp
    /\ fret = NoRes
    /\ result = NoRes
    /\ err = NoErr
    /\ eop = NoEop
    /\ cls = NoCls
    /\ scopes = << >>
    /\ iter = NoIter
    /\ yielded = NoYield

ReadI16Le ==
    /\ pc = "reading" /\ etype \in FromLength
    /\ Primitive("read_i16_le", << >>, read_i16_le(reader, etype))

ReadI16Be ==
    /\ pc = "reading" /\ etype \in FromLength
    /\ Primitive("read_i16_be", << >>, read_i16_be(reader, etype))

NumNext ==
    \/ ReadLe
    \/ ReadBe
    \/ ReadI16Le
    \/ ReadI16Be

NumSpec == NumInit /\ [][NumNext]_vars

(***************************************************************************)
(* The consumed machine: a view with any bound is handed to split_consumed *)
(* or try_split_consumed, whose closure takes and consumes.                *)
(***************************************************************************)

ConsumedInit ==
    /\ data \in Datas
    /\ \E b \in Bounds : input = [NewInput EXCEPT !.bound = b]
    /\ etype = "Expected"
    /\ mode \in {"split_consumed", "try_split_consumed"}
    /\ pc = "reading"
    /\ reader = Reader_new(input)
    /\ prev = reader
    /\ last = NoOp
    /\ fret = NoRes
    /\ result = NoRes
    /\ err = NoErr
    /\ eop = NoEop
    /\ cls = NoCls
    /\ scopes = << >>
    /\ iter = NoIter
    /\ yielded = NoYield

Consumed(fres, res) ==
    /\ pc = "reading"
    /\ fret' = fres
    /\ result' = res
    /\ pc' = "done"
    /\ UNCHANGED <<iter, yielded, data, input, etype, mode, reader, prev, last, err, eop, cls, scopes>>

\* The closure of split_consumed returns nothing.
SplitConsumedReturn ==
    /\ mode = "split_consumed"
    /\ Consumed(Ok("()"), Ok(split_consumed(input, reader)))

TrySplitConsumedOk ==
    /\ mode = "try_split_consumed"
    /\ Consumed(Ok("()"), try_split_consumed(input, Ok("()"), reader, "try take consumed"))

TrySplitConsumedErr ==
    /\ mode = "try_split_consumed"
    /\ ~last.res.ok
    /\ Consumed(last.res, try_split_consumed(input, last.res, reader, "try take consumed"))

ConsumedNext ==
    \/ Take
    \/ Consume
    \/ SplitConsumedReturn
    \/ TrySplitConsumedOk
    \/ TrySplitConsumedErr

ConsumedSpec == ConsumedInit /\ [][ConsumedNext]_vars

(***************************************************************************)
(* The error machine: a structured error, as the crate can hold it, is     *)
(* given context by the scopes it leaves and converted into the catch-all  *)
(* errors.                                                                 *)
(***************************************************************************)

\* The backing bytes of the error machine: 1, 2, 1, ...  The values an
\* ExpectedValue expects range over every literal, so a span matches,
\* falls short of and diverges from them.
ErrData == [i \in 1..MaxLen |-> IF i % 2 = 1 THEN 1 ELSE 2]

ErrInputs == {i \in Inputs : i.bound = "Start"}

SomeMax(min) == {Some(m) : m \in min..(MaxLen + 1)}

RetryRequirements == {None} \cup {Some(n) : n \in 1..MaxLen}

\* The contexts a scope may give.
ErrContexts == {OperationContext("read all"), [operation |-> "read", expected |-> Some("thing")]}

StructuredErrors ==
    LET Views == {v \in ErrInputs \X Slices : is_sub_slice(as_dangerous_bytes(v[1]), v[2])}
    IN  {ExpectedValue(value, v[2], v[1], ExpectedContext("consume", "exact value")) :
            value \in Literals, v \in Views}
        \cup
        {ExpectedLength([min |-> m[1], max |-> m[2]], v[2], v[1],
                        ExpectedContext("take", "enough input")) :
            m \in {mm \in (0..(MaxLen + 1)) \X ({None} \cup SomeMax(0)) :
                      mm[2] = None \/ mm[1] <= mm[2][1]},
            v \in Views}
        \cup
        {ExpectedValid(v[2], v[1], ExpectedContext("verify", "valid input"), rr) :
            rr \in RetryRequirements, v \in Views}

ErrInit ==
    /\ data = ErrData
    /\ input = NewInput
    /\ etype = "none"
    /\ mode = "none"
    /\ pc = "err"
    /\ reader = NewInput
    /\ prev = NewInput
    /\ last = NoOp
    /\ fret = NoRes
    /\ result = NoRes
    /\ err \in StructuredErrors
    /\ eop = NoEop
    /\ cls = NoCls
    /\ scopes = << >>
    /\ iter = NoIter
    /\ yielded = NoYield

ErrStep(op, inp, context, e) ==
    /\ err' = e
    /\ eop' = [op |-> op, input |-> inp, context |-> context, before |-> err]
    /\ cls' = NoCls
    /\ UNCHANGED <<iter, yielded, data, input, etype, mode, pc, reader, prev, last, fret, result, scopes>>

\* A scope the error leaves: err.with_context(inp, context).
ErrWithContext ==
    /\ pc = "err"
    /\ err.type = "Expected" => Len(err.context) < MaxChain
    /\ \E inp \in ErrInputs, context \in ErrContexts :
          ErrStep("with_context", inp, context, with_context(err, inp, context))

ErrIntoExpected ==
    /\ pc = "err"
    /\ err.type \in Structured
    /\ ErrStep("into_expected", NoEop.input, NoEop.context, Expected_from(err))

ErrIntoFatal ==
    /\ pc = "err"
    /\ err.type \in Structured
    /\ ErrStep("into_fatal", NoEop.input, NoEop.context, Fatal_from(err))

ErrIntoInvalid ==
    /\ pc = "err"
    /\ err.type \in Structured
    /\ ErrStep("into_invalid", NoEop.input, NoEop.context, Invalid_from(err))

\* The caller reads the classification off the error: err.is_fatal() and
\* err.to_retry_requirement().
ErrClassify ==
    /\ pc = "err"
    /\ cls' = [done |-> TRUE, fatal |-> is_fatal(err), retry |-> to_retry_requirement(err)]
    /\ UNCHANGED <<iter, yielded, data, input, etype, mode, pc, reader, prev, last, fret, result, err, eop,
                   scopes>>

ErrNext ==
    \/ ErrClassify
    \/ ErrWithContext
    \/ ErrIntoExpected
    \/ ErrIntoFatal
    \/ ErrIntoInvalid

ErrSpec == ErrInit /\ [][ErrNext]_vars


(***************************************************************************)
(* Properties                                                              *)
(***************************************************************************)

\* The structured error an error value describes, if it kept one.
Details(e) == IF e.type = "Expected" THEN e.inner ELSE e

HasDetails(e) == e.type \in Structured \cup {"Expected"}

SpanLen(e) == e.span.hi - e.span.lo

\* C1: transactional atomicity. Whenever a reader primitive (take, peek,
\* consume, take_until, the typed reads) returns an error, the reader's
\* input after the call is the input before the call; the reader moves
\* only when the primitive returned Ok.
C1_TransactionalAtomicity ==
    (pc = "reading" /\ last.op # "none" /\ ~last.res.ok) => reader = prev

\* A typed read fails after the reader has already advanced.
C1_Witness ==
    /\ pc = "reading"
    /\ last.op = "read_be"
    /\ ~last.res.ok
    /\ reader.lo > 0
    /\ ~is_empty(reader)

\* The trailing-input error of read_all, for the reader as it was left.
IsTrailingInputError(e) ==
    /\ e.type = "ExpectedLength"
    /\ e.min = 0
    /\ e.max = Some(0)
    /\ e.span.lo = reader.lo
    /\ e.span.hi = input.hi
    /\ SpanLen(e) = byte_len(reader)
    /\ e.input = input
    /\ e.context.operation = "read all"
    /\ e.context.expected = Some("no trailing input")

\* C2: read_all. The result is Ok(v) iff the closure returned Ok(v) and the
\* reader is at the end; if the closure returned Ok and k > 0 bytes are
\* unread, the result is an ExpectedLength error that demands exactly 0
\* bytes, whose span is the unread tail and whose input is the whole input,
\* with the context "read all" / "no trailing input"; if the closure
\* returned an error, that error is the result and not a trailing-input
\* error.
C2_ReadAllOutcomes ==
    (pc = "done" /\ mode = "read_all") =>
        /\ result.ok <=> (fret.ok /\ at_end(reader))
        /\ result.ok => result.val = fret.val
        /\ (fret.ok /\ ~at_end(reader)) =>
              /\ result.err.type = etype
              /\ HasDetails(result.err) => IsTrailingInputError(Details(result.err))
        /\ ~fret.ok =>
              /\ ~result.ok
              /\ result.err.type = fret.err.type
              /\ HasDetails(result.err) =>
                    /\ Details(result.err).type = Details(fret.err).type
                    /\ Details(result.err).span = Details(fret.err).span
                    /\ Details(result.err).context = Details(fret.err).context
                    /\ Details(result.err).context.operation # "read all"

\* read_all on a closure that took some bytes and left some unread.
C2_Witness ==
    /\ pc = "done"
    /\ mode = "read_all"
    /\ fret.ok
    /\ reader.lo > 0
    /\ ~at_end(reader)
    /\ ~result.ok
    /\ etype = "ExpectedLength"

\* read_all of a fresh, Start-bound input returned its trailing-input
\* error as an ExpectedLength.
TrailingInputCase ==
    /\ pc = "done"
    /\ mode = "read_all"
    /\ input.bound = "Start"
    /\ etype = "ExpectedLength"
    /\ fret.ok
    /\ ~result.ok

\* C3, as stated: the trailing-input error of read_all on a fresh
\* Start-bound input reports is_fatal() = false and no retry requirement.
C3_Original ==
    TrailingInputCase =>
        /\ ~ExpectedLength_is_fatal(result.err)
        /\ ExpectedLength_to_retry_requirement(result.err) = None

\* C3, amended: the trailing-input error of read_all on a fresh Start-bound
\* input reports is_fatal() = true and no retry requirement.
C3_TrailingInputIsFatal ==
    TrailingInputCase =>
        /\ ExpectedLength_is_fatal(result.err)
        /\ ExpectedLength_to_retry_requirement(result.err) = None

\* input(b"ab").read_all(|r| r.take(1)): one byte is left over.
C3_Witness ==
    /\ TrailingInputCase
    /\ IsTrailingInputError(result.err)
    /\ SpanLen(result.err) = 1
    /\ byte_len(input) = 2


\* b starts with a: some suffix completes a to b.
IsPrefixOf(a, b) == \E t \in SeqsUpTo(MaxLen + 1) : b = a \o t

\* The caller has read the classification of a structured error of type t.
Classified(t) == pc = "err" /\ cls.done /\ err.type = t

ConsumeFailed == pc = "reading" /\ last.op = "consume" /\ ~last.res.ok

\* The remaining bytes are a strict prefix of the literal.
StrictPrefix(r, literal) == Len(r) < Len(literal) /\ IsPrefixOf(r, literal)

\* The shape of the error of a failed consume / split_prefix.
ConsumeErrorShape(e) ==
    /\ e.type = "ExpectedValue"
    /\ e.value = last.arg
    /\ e.span.lo = prev.lo
    /\ SpanLen(e) = Min(byte_len(prev), Len(last.arg))
    /\ e.context.expected = Some("exact value")

\* C5: consume(literal) on remaining bytes r that do not start with the
\* literal fails with ExpectedValue{expected = literal, actual = the first
\* min(|r|, |literal|) bytes of r, context expected "exact value"}; on an
\* input not bound on both sides its retry requirement is
\* Some(|literal| - |r|) exactly when r is a strict prefix of the literal
\* and None when the bytes diverged; on a Both-bound input the failure is
\* fatal.
C5_ConsumeError ==
    (ConsumeFailed /\ HasDetails(last.res.err)) =>
        LET e == Details(last.res.err)
            r == BytesOf(prev)
        IN  /\ ConsumeErrorShape(e)
            /\ input.bound # "Both" =>
                  to_retry_requirement(last.res.err) =
                      IF StrictPrefix(r, last.arg) THEN Some(Len(last.arg) - Len(r)) ELSE None
            /\ input.bound = "Both" =>
                  /\ is_fatal(last.res.err)
                  /\ to_retry_requirement(last.res.err) = None

\* C5 but for its last clause: the shape and the retry requirement of the
\* error of a failed consume, whatever the bound of the input.
C5_ConsumeErrorUnbound ==
    (ConsumeFailed /\ HasDetails(last.res.err)) =>
        LET e == Details(last.res.err)
            r == BytesOf(prev)
        IN  /\ ConsumeErrorShape(e)
            /\ to_retry_requirement(last.res.err) =
                  IF StrictPrefix(r, last.arg) THEN Some(Len(last.arg) - Len(r)) ELSE None

C7_RetryRequirementPositive ==
    (Classified("ExpectedValue") \/ Classified("ExpectedLength")) =>
        LET needed == IF err.type = "ExpectedValue" THEN Len(err.value) ELSE err.min
        IN  /\ cls.retry # None =>
                  /\ cls.retry[1] > 0
                  /\ SpanLen(err) < needed
                  /\ cls.retry[1] = needed - SpanLen(err)
            /\ SpanLen(err) >= needed => cls.retry = None

\* An ExpectedValue that is not fatal and whose span is all of the
\* expected value: no requirement.
C7_Witness ==
    /\ Classified("ExpectedValue")
    /\ ~cls.fatal
    /\ BytesOf(err.span) = err.value
    /\ cls.retry = None

\* C8: whenever the input parsed is bound on both sides, every error that
\* read_all / read_partial return, of any error type, is fatal and has no
\* retry requirement.
C8_BoundOverride ==
    (pc = "done" /\ input.bound = "Both" /\ ~result.ok) =>
        /\ is_fatal(result.err)
        /\ to_retry_requirement(result.err) = None

\* C9: a structured error converted into Fatal has no retry requirement,
\* is fatal, and is left as it is by from_context; converted into Expected
\* it has the retry requirement, the input and the span of the structured
\* error.
C9_CatchAllConversion ==
    /\ (pc = "err" /\ eop.op = "into_fatal") =>
          /\ to_retry_requirement(err) = None
          /\ is_fatal(err)
    /\ (pc = "err" /\ eop.op = "with_context" /\ eop.before.type = "Fatal") =>
          err = eop.before
    /\ (pc = "err" /\ eop.op = "into_expected") =>
          /\ to_retry_requirement(err) = to_retry_requirement(eop.before)
          /\ Expected_input(err) = eop.before.input
          /\ Expected_span(err) = eop.before.span

\* An ExpectedValid that asks for more input, converted into Expected.
C9_Witness ==
    /\ pc = "err"
    /\ eop.op = "into_expected"
    /\ eop.before.type = "ExpectedValid"
    /\ to_retry_requirement(err) = Some(1)

\* C10: with_context(input, ctx) on a structured error replaces the
\* error's input with `input` iff the error's input lies within `input`,
\* and keeps it otherwise; the span, the expected value, min and max, the
\* retry requirement and the error's own context are unchanged.
C10_WithContextFrame ==
    (pc = "err" /\ eop.op = "with_context" /\ eop.before.type \in Structured) =>
        LET b == eop.before
            within == eop.input.lo <= b.input.lo /\ b.input.hi <= eop.input.hi
        IN  /\ err.input = IF within THEN eop.input ELSE b.input
            /\ [err EXCEPT !.input = b.input] = b

\* A scope with a wider input than the error's: the input is replaced.
C10_Witness ==
    /\ pc = "err"
    /\ eop.op = "with_context"
    /\ eop.before.type = "ExpectedLength"
    /\ err.input = eop.input
    /\ err.input # eop.before.input
    /\ byte_len(err.input) > byte_len(eop.before.input)

\* The contexts of the scopes of a nest that the error has left: those
\* below the scopes still open.
Exited(nest) ==
    [i \in 1..(Len(nest) - Len(scopes)) |-> nest[Len(scopes) + i].context]

ScopeFailed ==
    pc = "reading" /\ last.op = "context" /\ ~last.res.ok /\ last.res.err.type = "Expected"

ReadAllFailed ==
    pc = "done" /\ mode = "read_all" /\ ~fret.ok /\ fret.err.type = "Expected"

\* C11 as stated: when a primitive fails inside the nested scopes c1 .. cn
\* under read_all and the error type is Expected, the chain of the error
\* read from the outermost node is exactly "read all", c1, .., cn, and the
\* input of the error is the input at entry of the outermost scope.
C11_Original ==
    /\ ScopeFailed =>
          /\ last.res.err.context = Exited(last.arg)
          /\ Expected_input(last.res.err) = last.arg[Len(scopes) + 1].entry
    /\ ReadAllFailed =>
          /\ result.err.context = <<OperationContext("read all")>> \o fret.err.context
          /\ Expected_input(result.err) = input

\* The nodes a failing primitive puts on the chain itself: the context of
\* the structured error, with which Expected::from seeded the chain, and
\* above it the scope of try_expect when the error came out of its closure.
OwnContexts(e) ==
    {<<context_of(e.inner)>>,
     <<ExpectedContext("try expect", "value"), context_of(e.inner)>>}

\* C11, amended: the chain of the error is "read all", c1, .., cn and then,
\* innermost, the nodes of the primitive that failed; the input of the
\* error is the input at entry of the outermost scope it has left.
C11_ContextChainOrder ==
    /\ ScopeFailed =>
          /\ \E own \in OwnContexts(last.res.err) :
                last.res.err.context = Exited(last.arg) \o own
          /\ Expected_input(last.res.err) = last.arg[Len(scopes) + 1].entry
    /\ ReadAllFailed =>
          /\ result.err.context = <<OperationContext("read all")>> \o fret.err.context
          /\ Expected_input(result.err) = input

\* The scenario of the spec: consume fails inside "expect magic" inside
\* "decode thing" under read_all of a bound input.
C11_Witness ==
    /\ ReadAllFailed
    /\ input.bound = "Both"
    /\ result.err.inner.type = "ExpectedValue"
    /\ result.err.context =
          <<OperationContext("read all"), StrContext("decode thing"),
            StrContext("expect magic"), ExpectedContext("consume", "exact value")>>

\* with_context has pushed, onto an Expected error, a context identical to
\* the node that was on top of its chain.
PushedSameContext ==
    /\ pc = "err"
    /\ eop.op = "with_context"
    /\ eop.before.type = "Expected"
    /\ eop.context = eop.before.context[1]

\* C12: consolidation. When with_context pushes a context whose (operation,
\* expected) pair is identical to the node it would sit next to, no node is
\* added and the consolidated() counter of that node goes up by one.
C12_Consolidation ==
    PushedSameContext =>
        /\ Len(err.context) = Len(eop.before.context)
        /\ consolidated(err.context) = consolidated(eop.before.context) + 1

\* split_consumed or try_split_consumed has returned a head and a tail.
ConsumedDone ==
    pc = "done" /\ mode \in {"split_consumed", "try_split_consumed"} /\ result.ok

to_le_bytes(v) ==
    LET u == IF v < 0 THEN v + 65536 ELSE v IN <<u % 256, u \div 256>>

to_be_bytes(v) ==
    LET u == IF v < 0 THEN v + 65536 ELSE v IN <<u \div 256, u % 256>>

NumRead ==
    pc = "reading" /\ last.op \in {"read_le", "read_be", "read_i16_le", "read_i16_be"}

\* C14: round-trip numerics. A typed read from a reader whose remaining
\* input starts with the encoding of v, in the width, signedness and
\* endianness of the read, returns v and advances by exactly the width;
\* with fewer bytes left it returns an ExpectedLength error and does not
\* advance.
C14_RoundTripNumerics ==
    NumRead =>
        IF byte_len(prev) >= NumLen
        THEN /\ last.res.ok
             /\ IF last.op \in {"read_le", "read_be"}
                THEN last.res.val \in 0..65535
                ELSE last.res.val \in (-32768)..32767
             /\ SubSeq(BytesOf(prev), 1, NumLen) =
                   IF last.op \in {"read_le", "read_i16_le"}
                   THEN to_le_bytes(last.res.val)
                   ELSE to_be_bytes(last.res.val)
             /\ reader = [prev EXCEPT !.lo = prev.lo + NumLen]
        ELSE /\ ~last.res.ok
             /\ Details(last.res.err).type = "ExpectedLength"
             /\ Details(last.res.err).min = NumLen
             /\ reader = prev

\* A big-endian read of a negative number whose two bytes differ, with
\* input left over.
C14_Witness ==
    /\ NumRead
    /\ last.op = "read_i16_be"
    /\ last.res.ok
    /\ last.res.val = -32767
    /\ ~is_empty(reader)

\* A primitive that advances the reader has returned Ok.
Advanced ==
    /\ pc = "reading"
    /\ last.op \in {"take", "consume", "take_until", "take_while", "read_le", "read_be"}
    /\ last.res.ok

\* The number of bytes the last primitive was to take off the input.
Taken ==
    CASE last.op = "take" -> last.arg[1]
      [] last.op = "consume" -> Len(last.arg)
      [] last.op \in {"take_until", "take_while"} -> byte_len(last.res.val)
      [] last.op \in {"read_le", "read_be"} -> NumLen

\* C15 as stated: every successful advancing primitive strictly decreases
\* the remaining byte length, take(0), consume of an empty literal and a
\* take_while that matches nothing included.
C15_Original ==
    Advanced => byte_len(reader) < byte_len(prev)

\* C15, amended: a successful advancing primitive never increases the
\* remaining byte length and keeps the end of the input; it takes exactly
\* the bytes it returns, so the length stays the same exactly when it took
\* no byte (take(0), consume of an empty literal, a take_while or take_until
\* that stops at the first byte) and decreases otherwise.
C15_MonotoneRemaining ==
    Advanced =>
        /\ reader.hi = prev.hi
        /\ byte_len(reader) = byte_len(prev) - Taken
        /\ byte_len(reader) <= byte_len(prev)
        /\ byte_len(reader) = byte_len(prev) <=> Taken = 0

\* take_while stops at the first byte of an input that is not empty.
C15_Witness ==
    /\ Advanced
    /\ last.op = "take_while"
    /\ ~is_empty(prev)
    /\ reader = prev

\* C16: idempotent bound. For every input x, x.into_bound() is bound on
\* both sides and has the bytes of x, and into_bound of an input that is
\* already bound gives back that input: x.into_bound().into_bound() equals
\* x.into_bound().
C16_IdempotentBound ==
    (pc = "new" /\ last.op = "into_bound") =>
        /\ is_bound(input)
        /\ input.bound = "Both"
        /\ as_dangerous_bytes(input) = as_dangerous_bytes(prev)
        /\ is_bound(prev) => input = prev

\* into_bound was called on the result of into_bound, for a view that is
\* not empty.
C16_Witness ==
    /\ pc = "new"
    /\ last.op = "into_bound"
    /\ is_bound(prev)
    /\ ~is_empty(input)

\* The span of an error that keeps its details lies inside its input.
SpanWithinInput(e) ==
    HasDetails(e) =>
        is_sub_slice(as_dangerous_bytes(Details(e).input), Details(e).span)

RangeWithin == input.lo <= reader.lo /\ reader.hi <= input.hi

\* C18: span_of(parent) is Some(start..end), the byte offsets of the view
\* inside the parent, exactly when the range of the view lies inside the
\* range of the parent (then 0 <= start <= end <= parent.byte_len and
\* end - start = self.byte_len), and None otherwise; span_of_non_empty is
\* the same but None whenever the view is empty.
C18_SpanOf ==
    (pc = "new" /\ last.op \in {"span_of", "span_of_non_empty"}) =>
        LET res == last.res.val
        IN  IF RangeWithin /\ ~(last.op = "span_of_non_empty" /\ reader.lo = reader.hi)
            THEN /\ res # None
                 /\ input.lo + res[1].start = reader.lo
                 /\ input.lo + res[1].end = reader.hi
                 /\ 0 <= res[1].start
                 /\ res[1].start <= res[1].end
                 /\ res[1].end <= byte_len(input)
                 /\ res[1].end - res[1].start = byte_len(reader)
            ELSE res = None

\* The span of a view that is not empty, inside a parent that does not
\* start at the start of the backing bytes.
C18_Witness ==
    /\ pc = "new"
    /\ last.op = "span_of"
    /\ last.res.val # None
    /\ input.lo > 0
    /\ ~is_empty(reader)

\* recover or recover_if has returned.
Recovered == pc = "reading" /\ last.op \in {"recover", "recover_if"}

\* C19: recover rewinds. When the closure given to recover, or to
\* recover_if with a classifier that returns true, fails, the reader is
\* afterwards at the input it had at entry, whatever the closure advanced
\* before it failed; when the closure succeeds the reader stays where the
\* closure left it.
C19_RecoverRewinds ==
    Recovered =>
        LET entry == last.arg[1]
            succeeded == last.arg[2]
            swallow == last.arg[3]
        IN  /\ (~succeeded /\ swallow) => (reader = entry /\ last.res = Ok(None))
            /\ succeeded => (reader = prev /\ last.res.ok /\ last.res.val # None)

\* The closure of recover advanced and then failed: the reader is back at
\* the entry, which is not where the closure left it.
C19_Witness ==
    /\ Recovered
    /\ last.op = "recover"
    /\ ~last.arg[2]
    /\ reader = last.arg[1]
    /\ prev # reader

\* What an error says, apart from the view it was found in: its type, the
\* value or length it expected and the bytes of its span.
Saying(e) ==
    LET d == Details(e)
    IN  <<d.type,
          IF d.type = "ExpectedValue" THEN d.value ELSE << >>,
          IF d.type = "ExpectedLength" THEN <<d.min, d.max>> ELSE << >>,
          BytesOf(d.span)>>

\* The second run ended as the first did: it failed.
SameOutcome == ~last.res.ok

\* C20: retry soundness. If a failed parse reports the retry requirement
\* Some(n), the same parse on the input extended by exactly n bytes of any
\* content succeeds or fails with a different error; if it reports None, no
\* extension of the input changes the outcome; for the shortfalls of take
\* and peek, the mismatches of consume and the misses of take_until.
C20_RetrySoundness ==
    pc = "retried" =>
        IF cls.retry # None
        THEN last.res.ok \/ Saying(last.res.err) # Saying(fret.err)
        ELSE SameOutcome

\* C20 for take, peek and consume: it is the misses of take_until that
\* break it.
C20_RetrySoundnessButTakeUntil ==
    (pc = "retried" /\ last.op # "take_until") =>
        IF cls.retry # None
        THEN last.res.ok \/ Saying(last.res.err) # Saying(fret.err)
        ELSE SameOutcome

(***************************************************************************)
(* UTF-8 (string.rs): the length table, the codepoint parsers and CharIter *)
(***************************************************************************)

\* Longest byte slice given to CharIter, and longest String, in bytes.
MaxStr == 4

\* The byte values of text: 'a' and 'b', the continuation byte 0xA9, the
\* leading bytes 0xC3 (two bytes) and 0xE2 (three bytes), and 0xFF, which no
\* UTF-8 text holds.  C3 A9 is U+00E9 and E2 A9 A9 is U+2A69.
Utf8Byte == {97, 98, 169, 195, 226, 255}

RECURSIVE Utf8SeqsUpTo(_)
Utf8SeqsUpTo(n) ==
    IF n = 0 THEN {<< >>}
    ELSE LET S == Utf8SeqsUpTo(n - 1)
         IN  S \cup {Append(s, b) : s \in {t \in S : Len(t) = n - 1}, b \in Utf8Byte}

\* UTF8_CHAR_LENGTH, as ranges of the first byte.
utf8_char_len(b) ==
    IF b < 128 THEN 1
    ELSE IF b < 194 THEN 0
    ELSE IF b < 224 THEN 2
    ELSE IF b < 240 THEN 3
    ELSE IF b < 245 THEN 4
    ELSE 0

\* (byte & !CONT_MASK) == TAG_CONT_U8: the byte is 10xxxxxx.
utf8_is_cont_byte(byte) == 128 <= byte /\ byte < 192

\* One well-formed UTF-8 sequence (RFC 3629): c is as long as its first byte
\* says, the rest are continuation bytes, and the second byte rules out
\* overlong forms, surrogates and values above U+10FFFF.
WellFormed(c) ==
    /\ c # << >>
    /\ utf8_char_len(c[1]) = Len(c)
    /\ \A i \in 2..Len(c) : utf8_is_cont_byte(c[i])
    /\ c[1] = 224 => c[2] >= 160
    /\ c[1] = 237 => c[2] < 160
    /\ c[1] = 240 => c[2] >= 144
    /\ c[1] = 244 => c[2] < 144

\* str::from_utf8(bytes).is_ok()
RECURSIVE from_utf8(_)
from_utf8(bytes) ==
    IF bytes = << >>
    THEN TRUE
    ELSE LET w == utf8_char_len(bytes[1])
         IN  /\ w > 0
             /\ Len(bytes) >= w
             /\ WellFormed(SubSeq(bytes, 1, w))
             /\ from_utf8(SubSeq(bytes, w + 1, Len(bytes)))

\* The char a well-formed sequence encodes, as its scalar value.
Decode(c) ==
    CASE Len(c) = 1 -> c[1]
      [] Len(c) = 2 -> (c[1] - 192) * 64 + (c[2] - 128)
      [] Len(c) = 3 -> (c[1] - 224) * 4096 + (c[2] - 128) * 64 + (c[3] - 128)
      [] OTHER -> (c[1] - 240) * 262144 + (c[2] - 128) * 4096 + (c[3] - 128) * 64
                  + (c[4] - 128)

\* char::len_utf8
len_utf8(c) ==
    IF c < 128 THEN 1 ELSE IF c < 2048 THEN 2 ELSE IF c < 65536 THEN 3 ELSE 4

InvalidChar == "InvalidChar"

\* The first char of bytes when bytes is valid UTF-8 and not empty.
parse_char(bytes) ==
    IF from_utf8(bytes) /\ bytes # << >>
    THEN Ok(Decode(SubSeq(bytes, 1, utf8_char_len(bytes[1]))))
    ELSE Err(InvalidChar)

first_codepoint(bytes) ==
    IF bytes # << >>
    THEN LET len == utf8_char_len(bytes[1])
         IN  IF Len(bytes) >= len
             THEN parse_char(SubSeq(bytes, 1, len))
             ELSE Err(InvalidChar)
    ELSE Err(InvalidChar)

\* The loop over at most four bytes from the end stops at the first byte
\* that is not a continuation byte and announces the length walked so far.
last_codepoint(bytes) ==
    IF bytes = << >>
    THEN Err(InvalidChar)
    ELSE LET at == {i \in 1..Min(4, Len(bytes)) :
                       LET byte == bytes[Len(bytes) - i + 1]
                       IN  ~utf8_is_cont_byte(byte) /\ utf8_char_len(byte) = i}
         IN  IF at = {}
             THEN Err(InvalidChar)
             ELSE LET i == CHOOSE k \in at : \A j \in at : k <= j
                      last_index == Len(bytes) - i
                  IN  parse_char(SubSeq(bytes, last_index + 1, Len(bytes)))

\* CharIter borrows the backing bytes; the struct is its two cursors.
CharIter_new(bytes) == [forward |-> 0, backward |-> Len(bytes)]

CharIter_as_slice(self) == SubSeq(data, self.forward + 1, self.backward)

CharIter_head(self) == SubSeq(data, self.forward + 1, Len(data))

CharIter_tail(self) == SubSeq(data, 1, self.backward)

\* Iterator::next: [iter |-> the iterator afterwards, ret |-> the item].
\* An Err of first_codepoint skips the and_then closure: no cursor moves.
CharIter_next(self) ==
    IF self.forward = self.backward
    THEN [iter |-> self, ret |-> None]
    ELSE LET item == first_codepoint(CharIter_head(self))
         IN  IF item.ok
             THEN LET forward == self.forward + len_utf8(item.val)
                  IN  IF forward > self.backward
                      THEN [iter |-> [self EXCEPT !.forward = self.backward],
                            ret |-> Some(Err(InvalidChar))]
                      ELSE [iter |-> [self EXCEPT !.forward = forward],
                            ret |-> Some(item)]
             ELSE [iter |-> self, ret |-> Some(item)]

\* next_back that gives the char before the back cursor but walks one byte.
CharIter_next_back_OneByte(self) ==
    IF self.forward = self.backward
    THEN [iter |-> self, ret |-> None]
    ELSE LET item == last_codepoint(CharIter_tail(self))
         IN  IF item.ok
             THEN [iter |-> [self EXCEPT !.backward = self.backward - 1],
                   ret |-> Some(item)]
             ELSE [iter |-> self, ret |-> Some(item)]

\* DoubleEndedIterator::next_back.  The saturating_sub stops at 0.
CharIter_next_back(self) ==
    IF self.forward = self.backward
    THEN [iter |-> self, ret |-> None]
    ELSE LET item == last_codepoint(CharIter_tail(self))
         IN  IF item.ok
             THEN LET len == len_utf8(item.val)
                      backward == IF self.backward >= len THEN self.backward - len ELSE 0
                  IN  IF backward < self.forward
                      THEN [iter |-> [self EXCEPT !.backward = self.forward],
                            ret |-> Some(Err(InvalidChar))]
                      ELSE [iter |-> [self EXCEPT !.backward = backward],
                            ret |-> Some(item)]
             ELSE [iter |-> self, ret |-> Some(item)]

(***************************************************************************)
(* The CharIter machine: an iterator over any byte slice, and a caller     *)
(* that interleaves next() and next_back() as it likes.                    *)
(***************************************************************************)

Utf8Datas == Utf8SeqsUpTo(MaxStr)

CharInit ==
    /\ data \in Utf8Datas
    /\ input = NewInput
    /\ etype = "none"
    /\ mode = "none"
    /\ pc = "iter"
    /\ reader = NewInput
    /\ prev = NewInput
    /\ last = NoOp
    /\ fret = NoRes
    /\ result = NoRes
    /\ err = NoErr
    /\ eop = NoEop
    /\ cls = NoCls
    /\ scopes = << >>
    /\ iter = CharIter_new(data)
    /\ yielded = NoYield

\* One call: last.arg is the iterator before it, last.res the item.
CharCall(op, out) ==
    /\ pc = "iter"
    /\ last' = [op |-> op, arg |-> iter, res |-> out.ret]
    /\ iter' = out.iter
    /\ yielded' = IF out.ret # None /\ out.ret[1].ok
                  THEN IF op = "next"
                       THEN [yielded EXCEPT !.front = Append(@, out.ret[1].val)]
                       ELSE [yielded EXCEPT !.back = Append(@, out.ret[1].val)]
                  ELSE yielded
    /\ UNCHANGED <<data, input, etype, mode, pc, reader, prev, fret, result, err, eop,
                   cls, scopes>>

CharNext == CharCall("next", CharIter_next(iter))

CharNextBack == CharCall("next_back", CharIter_next_back(iter))

CharIterNext ==
    \/ CharNext
    \/ CharNextBack

CharSpec == CharInit /\ [][CharIterNext]_vars

\* A caller that keeps calling until the iterator says None.
CharLoopSpec == CharSpec /\ WF_vars(CharNext) /\ WF_vars(CharNextBack)

(***************************************************************************)
(* Properties of CharIter                                                  *)
(***************************************************************************)

\* str::chars of valid UTF-8 bytes, as scalar values.
RECURSIVE Chars(_)
Chars(bytes) ==
    IF bytes = << >>
    THEN << >>
    ELSE LET w == utf8_char_len(bytes[1])
         IN  <<Decode(SubSeq(bytes, 1, w))>> \o Chars(SubSeq(bytes, w + 1, Len(bytes)))

Reverse(s) == [i \in 1..Len(s) |-> s[Len(s) + 1 - i]]

CharCalled == pc = "iter" /\ last.op \in {"next", "next_back"}

\* C25: over valid UTF-8 bytes and any interleaving of next() and
\* next_back(), 0 <= forward <= backward <= len after every call; the chars
\* given out at the front, those still between the cursors and those given
\* out at the back (reversed) are the chars of the text, each once and in
\* order; no call gives an error; a call made with forward = backward
\* returns None.
C25_CharIterDoubleEnded ==
    (pc = "iter" /\ from_utf8(data)) =>
        /\ 0 <= iter.forward
        /\ iter.forward <= iter.backward
        /\ iter.backward <= Len(data)
        /\ from_utf8(CharIter_as_slice(iter))
        /\ yielded.front \o Chars(CharIter_as_slice(iter)) \o Reverse(yielded.back)
               = Chars(data)
        /\ CharCalled =>
               /\ last.arg.forward = last.arg.backward => last.res = None
               /\ last.res # None => last.res[1].ok

\* A text with a multi-byte char was read from both ends until None.
C25_Witness ==
    /\ CharCalled
    /\ from_utf8(data)
    /\ Len(Chars(data)) < Len(data)
    /\ yielded.front # << >>
    /\ yielded.back # << >>
    /\ Len(yielded.front) + Len(yielded.back) = Len(Chars(data))
    /\ last.res = None

\* C26: whatever the bytes, a caller that keeps calling next() and
\* next_back() is eventually told None.
C26_CharIterTerminates == <>(CharCalled /\ last.res = None)

\* Over valid UTF-8 the caller is eventually told None.
C26_TerminatesOnText == [](pc = "iter" => from_utf8(data)) => C26_CharIterTerminates

(***************************************************************************)
(* The split machine: a caller holds one view of the backing bytes and     *)
(* applies one of the pattern splits of PrivateExt to it.                  *)
(***************************************************************************)

\* The error the predicate of try_split_while gives for the token at byte
\* index i: it names the token as its span and as its input.
TokenError(self, i, E) ==
    LET token == [lo |-> self.lo + i, hi |-> self.lo + i + 1]
    IN  From(E, ExpectedValue(<<1>>, token,
                              [lo |-> token.lo, hi |-> token.hi, bound |-> self.bound],
                              ExpectedContext("check", "token")))

\* What a predicate may answer for each token of the view.
Predicates(self, E) ==
    LET tokens == 0..(byte_len(self) - 1)
        answers == {Ok(TRUE), Ok(FALSE)} \cup {Err(TokenError(self, i, E)) : i \in tokens}
    IN  {f \in [tokens -> answers] : \A i \in tokens : f[i].ok \/ f[i].err = TokenError(self, i, E)}

SplitInit ==
    /\ data \in Datas
    /\ input \in Inputs
    /\ etype \in FromValue
    /\ mode = "none"
    /\ pc = "split"
    /\ reader = input
    /\ prev = input
    /\ last = NoOp
    /\ fret = NoRes
    /\ result = NoRes
    /\ err = NoErr
    /\ eop = NoEop
    /\ cls = NoCls
    /\ scopes = << >>
    /\ iter = NoIter
    /\ yielded = NoYield

\* One call on the view: last.arg is what the caller passed, last.res what
\* came back.
SplitCall(op, arg, res) ==
    /\ pc = "split"
    /\ pc' = "called"
    /\ last' = [op |-> op, arg |-> arg, res |-> res]
    /\ UNCHANGED <<data, input, etype, mode, reader, prev, fret, result, err, eop, cls,
                   scopes, iter, yielded>>

SplitUntilOpt ==
    \E pattern \in Literals \cup {<< >>} :
        SplitCall("split_until_opt", pattern, split_until_opt(input, pattern))

SplitUntilConsumeOpt ==
    \E pattern \in Literals \cup {<< >>} :
        SplitCall("split_until_consume_opt", pattern, split_until_consume_opt(input, pattern))

SplitUntil ==
    \E pattern \in Literals \cup {<< >>} :
        SplitCall("split_until", pattern, split_until(input, pattern, "take until", etype))

SplitUntilConsume ==
    \E pattern \in Literals \cup {<< >>} :
        SplitCall("split_until_consume", pattern,
                  split_until_consume(input, pattern, "take until consume", etype))

SplitWhileOpt ==
    \E pattern \in Byte :
        SplitCall("split_while_opt", pattern, split_while_opt(input, pattern))

\* last.arg keeps the predicate and how many tokens it was asked about.
TrySplitWhile ==
    \E f \in Predicates(input, etype) :
        LET out == try_split_while(input, f, "try take while")
        IN  SplitCall("try_split_while", [f |-> f, evaluated |-> out.evaluated], out.ret)

SplitNext ==
    \/ SplitUntilOpt
    \/ SplitUntilConsumeOpt
    \/ SplitUntil
    \/ SplitUntilConsume
    \/ SplitWhileOpt
    \/ TrySplitWhile

SplitSpec == SplitInit /\ [][SplitNext]_vars

(***************************************************************************)
(* Properties of the pattern splits                                        *)
(***************************************************************************)

SplitCalled(ops) == pc = "called" /\ last.op \in ops

\* The halves of a successful split, whichever way the call reports it.
Halves ==
    IF last.op \in {"split_until_opt", "split_until_consume_opt", "split_while_opt"}
    THEN last.res
    ELSE IF last.res.ok THEN Some(last.res.val) ELSE None

\* The byte indexes of the view at which the pattern occurs.
Occurrences(pattern, self) ==
    {i \in 0..(byte_len(self) - Len(pattern)) :
        SubSeq(BytesOf(self), i + 1, i + Len(pattern)) = pattern}

\* C22: split_until_opt and split_until_consume_opt return Some exactly when
\* find_match finds a match (index, len), which is the first occurrence of
\* the pattern.  The head is the first index bytes.  The tail of
\* split_until_opt is the rest and starts with the match; the tail of
\* split_until_consume_opt is the rest without the len bytes of the match, so
\* head.len + len + tail.len = input.len.  Without a match both return None
\* and split_until / split_until_consume return an ExpectedValue whose span
\* is the whole input, whose value is the pattern and whose context expects
\* "pattern match".
C22_SplitUntil ==
    SplitCalled({"split_until_opt", "split_until_consume_opt", "split_until",
                 "split_until_consume"}) =>
        LET pattern == last.arg
            m == find_match(pattern, input)
            at == Occurrences(pattern, input)
            consuming == last.op \in {"split_until_consume_opt", "split_until_consume"}
        IN  /\ (Halves # None) <=> (m # None)
            /\ (m # None) <=> (at # {})
            /\ m # None =>
                  LET index == m[1][1]
                      len == m[1][2]
                      head_ == Halves[1][1]
                      tail_ == Halves[1][2]
                  IN  /\ index \in at
                      /\ \A j \in at : index <= j
                      /\ len = Len(pattern)
                      /\ head_.lo = input.lo
                      /\ byte_len(head_) = index
                      /\ tail_.hi = input.hi
                      /\ ~consuming =>
                            /\ tail_.lo = head_.hi
                            /\ has_prefix(BytesOf(tail_), pattern)
                      /\ consuming =>
                            /\ tail_.lo = head_.hi + len
                            /\ byte_len(head_) + len + byte_len(tail_) = byte_len(input)
            /\ (m = None /\ last.op \in {"split_until", "split_until_consume"}) =>
                  /\ ~last.res.ok
                  /\ last.res.err.type = IF etype = "ExpectedValue" THEN "ExpectedValue" ELSE etype
                  /\ HasDetails(last.res.err) =>
                        LET e == Details(last.res.err)
                        IN  /\ e.type = "ExpectedValue"
                            /\ e.span = as_dangerous_bytes(input)
                            /\ e.input = input
                            /\ e.value = pattern
                            /\ e.context.expected = Some("pattern match")

\* A match that ends the view, after a head that is not empty, was consumed.
C22_Witness ==
    /\ SplitCalled({"split_until_consume_opt"})
    /\ last.res # None
    /\ byte_len(last.res[1][1]) > 0
    /\ Len(last.arg) > 0
    /\ byte_len(last.res[1][1]) + Len(last.arg) = byte_len(input)

\* C23: split_while_opt splits at the byte index of the first token that
\* does not match the pattern and returns None when every token matches.
\* try_split_while returns (head, tail) with head the longest prefix of
\* tokens for which f said Ok(true) and tail starting at the first token
\* with Ok(false); (whole input, empty view at its end) when f said Ok(true)
\* for every token; and, when f fails before saying Ok(false), f's error
\* after with_context(input, OperationContext(operation)), f being asked
\* about no token after the one it failed on.
C23_SplitWhile ==
    /\ SplitCalled({"split_while_opt"}) =>
          LET b == BytesOf(input)
              rejected == {i \in 0..(Len(b) - 1) : b[i + 1] # last.arg}
          IN  /\ (last.res = None) <=> (rejected = {})
              /\ last.res # None =>
                    LET head_ == last.res[1][1]
                        tail_ == last.res[1][2]
                    IN  /\ byte_len(head_) \in rejected
                        /\ \A j \in rejected : byte_len(head_) <= j
                        /\ head_.lo = input.lo
                        /\ tail_.lo = head_.hi
                        /\ tail_.hi = input.hi
    /\ SplitCalled({"try_split_while"}) =>
          LET f == last.arg.f
              len == byte_len(input)
              stop == {i \in 0..(len - 1) : f[i] # Ok(TRUE)}
          IN  /\ stop = {} =>
                    /\ last.res = Ok(<<input, end(input)>>)
                    /\ last.arg.evaluated = len
              /\ stop # {} =>
                    LET i == CHOOSE k \in stop : \A j \in stop : k <= j
                    IN  /\ last.arg.evaluated = i + 1
                        /\ last.res.ok <=> f[i].ok
                        /\ f[i].ok =>
                              LET head_ == last.res.val[1]
                                  tail_ == last.res.val[2]
                              IN  /\ head_.lo = input.lo
                                  /\ byte_len(head_) = i
                                  /\ tail_.lo = head_.hi
                                  /\ tail_.hi = input.hi
                        /\ ~f[i].ok =>
                              LET e == last.res.err
                                  fe == f[i].err
                              IN  /\ e.type = fe.type
                                  /\ e.type = "Expected" =>
                                        /\ e.context = <<OperationContext("try take while")>>
                                                           \o fe.context
                                        /\ e.inner = [fe.inner EXCEPT !.input = input]
                                  /\ e.type = "ExpectedValue" =>
                                        e = [fe EXCEPT !.input = input]
                                  /\ e.type \in {"Fatal", "Invalid"} => e = fe

\* The predicate failed on a token that is not the last one of the view.
C23_Witness ==
    /\ SplitCalled({"try_split_while"})
    /\ ~last.res.ok
    /\ last.res.err.type = "Expected"
    /\ last.arg.evaluated < byte_len(input)

(***************************************************************************)
(* The expect machine: split_expect, try_split_expect or                   *)
(* try_split_expect_erased is called on an input; the closure reads with   *)
(* take and consume and returns.                                           *)
(***************************************************************************)

ExpectModes == {"split_expect", "try_split_expect", "try_split_expect_erased"}

\* Errors of a type R of the caller's own, which says how much more input
\* it needs.
ForeignErrors == {[type |-> "Invalid", retry_requirement |-> rr] : rr \in RetryRequirements}

ExpectInit ==
    /\ data \in Datas
    /\ \E b \in Bounds : input = [NewInput EXCEPT !.bound = b]
    /\ etype \in FromValid \cap FromLength \cap FromValue
    /\ mode \in ExpectModes
    /\ pc = "reading"
    /\ reader = Reader_new(input)
    /\ prev = reader
    /\ last = NoOp
    /\ fret = NoRes
    /\ result = NoRes
    /\ err = NoErr
    /\ eop = NoEop
    /\ cls = NoCls
    /\ scopes = << >>
    /\ iter = NoIter
    /\ yielded = NoYield

\* The closure of split_expect returns Some(value) or None.
SplitExpectReturn ==
    /\ mode = "split_expect"
    /\ \E fopt \in {None, Some("v")} :
          Consumed(fopt, split_expect(input, fopt, reader, "value", "expect", etype))

TrySplitExpectOk ==
    /\ mode = "try_split_expect"
    /\ \E fres \in {Ok(None), Ok(Some("v"))} :
          Consumed(fres, try_split_expect(input, fres, reader, "value", "try expect", etype))

\* The closure returns the error of the primitive that just failed.
TrySplitExpectErr ==
    /\ mode = "try_split_expect"
    /\ ~last.res.ok
    /\ Consumed(last.res,
                try_split_expect(input, last.res, reader, "value", "try expect", etype))

TrySplitExpectErasedOk ==
    /\ mode = "try_split_expect_erased"
    /\ Consumed(Ok("v"), try_split_expect_erased(input, Ok("v"), reader, "value",
                                                 "try expect erased", etype))

\* The closure returns the error of the primitive that just failed, or an
\* error of its own.
TrySplitExpectErasedErr ==
    /\ mode = "try_split_expect_erased"
    /\ \E fres \in {Err(e) : e \in ForeignErrors} \cup {r \in {last.res} : ~r.ok} :
          Consumed(fres, try_split_expect_erased(input, fres, reader, "value",
                                                 "try expect erased", etype))

ExpectNext ==
    \/ Take
    \/ Consume
    \/ SplitExpectReturn
    \/ TrySplitExpectOk
    \/ TrySplitExpectErr
    \/ TrySplitExpectErasedOk
    \/ TrySplitExpectErasedErr

ExpectSpec == ExpectInit /\ [][ExpectNext]_vars

(***************************************************************************)
(* Properties of the split_expect family                                   *)
(***************************************************************************)

ExpectDone == pc = "done" /\ mode \in ExpectModes

\* What the closure returned, as an Option of the value: None also when it
\* failed.
ClosureValue ==
    CASE mode = "split_expect" -> fret
      [] mode = "try_split_expect" -> IF fret.ok THEN fret.val ELSE None
      [] OTHER -> IF fret.ok THEN Some(fret.val) ELSE None

\* The closure yielded no value, and did not fail where failing is its own
\* outcome.
Rejected ==
    \/ mode = "split_expect" /\ fret = None
    \/ mode = "try_split_expect" /\ fret = Ok(None)
    \/ mode = "try_split_expect_erased" /\ ~fret.ok

\* C24: when the closure yields a value the result is (value, what the
\* closure's reader had not read).  When it yields None, split_expect and
\* try_split_expect return an ExpectedValid whose span is the bytes
\* [0, input.len - tail.len) of the input, whose input is the whole input
\* and whose retry requirement is None.  When it fails,
\* try_split_expect_erased returns the same ExpectedValid but with the
\* failure's to_retry_requirement() as its retry requirement.
C24_SplitExpect ==
    ExpectDone =>
        /\ ClosureValue # None => result = Ok(<<ClosureValue[1], reader>>)
        /\ Rejected =>
              LET retry == IF mode = "try_split_expect_erased"
                           THEN to_retry_requirement(fret.err)
                           ELSE None
              IN  /\ ~result.ok
                  /\ result.err.type = etype
                  /\ etype # "Fatal" => to_retry_requirement(result.err) = retry
                  /\ HasDetails(result.err) =>
                        LET e == Details(result.err)
                        IN  /\ e.type = "ExpectedValid"
                            /\ e.span = [lo |-> input.lo,
                                         hi |-> input.lo + byte_len(input) - byte_len(reader)]
                            /\ e.span.hi = reader.lo
                            /\ e.input = input
                            /\ e.retry_requirement = retry

\* A closure that had read something failed with an error that asks for
\* more input, and try_split_expect_erased kept the request.
C24_Witness ==
    /\ ExpectDone
    /\ mode = "try_split_expect_erased"
    /\ ~fret.ok
    /\ to_retry_requirement(fret.err) # None
    /\ reader.lo > input.lo
    /\ result.err.type = "Expected"

(***************************************************************************)
(* String: an Input whose bytes are UTF-8 text and whose tokens are chars. *)
(* Its splits are the generic ones of PrivateExt, over the tokens, prefixes *)
(* and patterns of text.                                                   *)
(***************************************************************************)

\* char::encode_utf8
Encode(c) ==
    IF c < 128 THEN <<c>>
    ELSE IF c < 2048 THEN <<192 + (c \div 64), 128 + (c % 64)>>
    ELSE IF c < 65536
         THEN <<224 + (c \div 4096), 128 + ((c \div 64) % 64), 128 + (c % 64)>>
         ELSE <<240 + (c \div 262144), 128 + ((c \div 4096) % 64),
                128 + ((c \div 64) % 64), 128 + (c % 64)>>

\* str::char_indices of valid UTF-8 bytes: <<byte index, char>>, the first
\* at byte index `at`.
RECURSIVE char_indices(_, _)
char_indices(bytes, at) ==
    IF bytes = << >>
    THEN << >>
    ELSE LET w == utf8_char_len(bytes[1])
         IN  <<<<at, Decode(SubSeq(bytes, 1, w))>>>>
                 \o char_indices(SubSeq(bytes, w + 1, Len(bytes)), at + w)

\* String::tokens
String_tokens(self) == char_indices(BytesOf(self), 0)

\* String::split_at_opt: mid counts tokens.
String_split_at_opt(self, mid) ==
    LET t == String_tokens(self)
    IN  IF mid < Len(t) THEN Some(split_at_byte_unchecked(self, t[mid + 1][1]))
        ELSE IF mid = Len(t) THEN Some(split_at_byte_unchecked(self, byte_len(self)))
        ELSE None

\* split_first_opt over a String that cuts after one byte, as over Bytes.
String_split_first_opt_Byte(self) ==
    LET t == String_tokens(self)
    IN  IF t = << >>
        THEN None
        ELSE Some(<<t[1][2], split_at_byte_unchecked(self, 1)[2]>>)

\* split_first_opt over a String: the token is a char, its byte_len is
\* len_utf8.
String_split_first_opt(self) ==
    LET t == String_tokens(self)
    IN  IF t = << >>
        THEN None
        ELSE Some(<<t[1][2], split_at_byte_unchecked(self, len_utf8(t[1][2]))[2]>>)

\* Pattern<String>::find_reject for a char pattern: the byte index of the
\* first char that is not the pattern.
String_find_reject(pattern, self) ==
    LET t == String_tokens(self)
        at == {k \in 1..Len(t) : t[k][2] # pattern}
    IN  IF at = {} THEN None ELSE Some(t[CHOOSE k \in at : \A j \in at : k <= j][1])

\* split_while_opt over a String.
String_split_while_opt(self, pattern) ==
    LET i == String_find_reject(pattern, self)
    IN  IF i # None THEN Some(split_at_byte_unchecked(self, i[1])) ELSE None

\* try_split_while over a String: f[k] is what the closure returns for the
\* k-th char; the cut is at the byte index the token iterator gave for it.
String_try_split_while(self, f, operation) ==
    LET t == String_tokens(self)
        stop == {k \in 1..Len(t) : f[k] # Ok(TRUE)}
    IN  IF stop = {}
        THEN Ok(<<self, end(self)>>)
        ELSE LET k == CHOOSE i \in stop : \A j \in stop : i <= j
             IN  IF f[k].ok
                 THEN Ok(split_at_byte_unchecked(self, t[k][1]))
                 ELSE Err(with_context(f[k].err, self, OperationContext(operation)))

(***************************************************************************)
(* The string machine: a caller holds a String and applies one split.      *)
(***************************************************************************)

\* Every text of up to MaxStr bytes; prefixes and patterns are texts too.
Texts == {s \in Utf8SeqsUpTo(MaxStr) : from_utf8(s)}

\* The chars of the alphabet.
TextChars == {Decode(s) : s \in {t \in Texts : t # << >> /\ utf8_char_len(t[1]) = Len(t)}}

StrInit ==
    /\ data \in Texts
    /\ input = NewInput
    /\ etype = "Expected"
    /\ mode = "none"
    /\ pc = "split"
    /\ reader = input
    /\ prev = input
    /\ last = NoOp
    /\ fret = NoRes
    /\ result = NoRes
    /\ err = NoErr
    /\ eop = NoEop
    /\ cls = NoCls
    /\ scopes = << >>
    /\ iter = NoIter
    /\ yielded = NoYield

StrSplitFirstOpt == SplitCall("split_first_opt", << >>, String_split_first_opt(input))

\* split_prefix_opt with a &str prefix: is_prefix_of is starts_with.
StrSplitPrefixOpt ==
    \E prefix \in Texts :
        LET s == split_prefix_opt(input, prefix)
        IN  SplitCall("split_prefix_opt", prefix,
                      IF s[1] # None THEN Some(<<s[1][1], s[2]>>) ELSE None)

\* split_until_opt with a &str pattern: find_match is str::find.
StrSplitUntilOpt ==
    \E pattern \in Texts :
        SplitCall("split_until_opt", pattern, split_until_opt(input, pattern))

StrSplitUntilConsumeOpt ==
    \E pattern \in Texts :
        SplitCall("split_until_consume_opt", pattern, split_until_consume_opt(input, pattern))

StrSplitWhileOpt ==
    \E pattern \in TextChars :
        SplitCall("split_while_opt", pattern, String_split_while_opt(input, pattern))

StrTrySplitWhile ==
    \E f \in [1..Len(String_tokens(input)) -> {Ok(TRUE), Ok(FALSE), Err(Fatal)}] :
        LET out == String_try_split_while(input, f, "try take while")
        IN  SplitCall("try_split_while", f, IF out.ok THEN Some(out.val) ELSE None)

\* split_consumed with a closure that takes n chars off its reader.
StrSplitConsumed ==
    \E n \in 0..MaxStr :
        LET s == String_split_at_opt(Reader_new(input), n)
            r == IF s # None THEN s[1][2] ELSE Reader_new(input)
        IN  SplitCall("split_consumed", n, Some(split_consumed(input, r)))

StrNext ==
    \/ StrSplitFirstOpt
    \/ StrSplitPrefixOpt
    \/ StrSplitUntilOpt
    \/ StrSplitUntilConsumeOpt
    \/ StrSplitWhileOpt
    \/ StrTrySplitWhile
    \/ StrSplitConsumed

StrSpec == StrInit /\ [][StrNext]_vars

(***************************************************************************)
(* Properties of the String splits                                         *)
(***************************************************************************)

\* str::is_char_boundary
is_char_boundary(bytes, i) ==
    i = 0 \/ i = Len(bytes) \/ (i < Len(bytes) /\ ~utf8_is_cont_byte(bytes[i + 1]))

\* A split was made: last.res is Some(<<head or first token, tail>>).
StrSplit == pc = "called" /\ last.res # None

\* The bytes of the first half: of the token when the split gives a token.
HeadBytes ==
    IF last.op = "split_first_opt" THEN Encode(last.res[1][1]) ELSE BytesOf(last.res[1][1])

TailBytes == BytesOf(last.res[1][2])

\* The bytes a consuming split drops between the halves.
Dropped == IF last.op = "split_until_consume_opt" THEN last.arg ELSE << >>

\* C21 as stated: every split of a String cuts at a codepoint boundary, both
\* halves are valid UTF-8 and their concatenation is the original text.
C21_Original ==
    StrSplit =>
        /\ is_char_boundary(data, last.res[1][2].lo)
        /\ from_utf8(HeadBytes)
        /\ from_utf8(TailBytes)
        /\ HeadBytes \o TailBytes = BytesOf(input)

\* C21: every split of a String cuts at codepoint boundaries, both halves
\* are valid UTF-8, and the first half, the match that
\* split_until_consume_opt drops (nothing for the other splits) and the
\* second half are, concatenated, the original text.
C21_Utf8Safety ==
    StrSplit =>
        /\ is_char_boundary(data, last.res[1][2].lo)
        /\ is_char_boundary(data, input.lo + Len(HeadBytes))
        /\ from_utf8(HeadBytes)
        /\ from_utf8(TailBytes)
        /\ HeadBytes \o Dropped \o TailBytes = BytesOf(input)

\* A multi-byte char in the middle of a text was matched and dropped.
C21_Witness ==
    /\ StrSplit
    /\ last.op = "split_until_consume_opt"
    /\ HeadBytes # << >>
    /\ Dropped # << >>
    /\ utf8_char_len(Dropped[1]) > 1
    /\ TailBytes # << >>

====
